---------------------------- MODULE Spec2Model ----------------------------
(***************************************************************************)
(* Eligibility engine (app_entry/utils/grade_checker.py, class            *)
(* GradeChecker) and catalog cache (app_entry/core/cache.py, class         *)
(* CourseCache, with the application start-up and the /check handler that  *)
(* reads it) of the course-qualification service.                          *)
(*                                                                         *)
(* Python values are modelled as records [t, v]: t is the Python type and  *)
(* v the payload.  A str is a sequence of one-character strings, so that   *)
(* lower(), upper(), strip(), split("/") and the `in` substring test are   *)
(* computed rather than assumed.  A float is an integer number of          *)
(* thousandths (34.486 is 34486); NaN is a value of its own.               *)
(***************************************************************************)
EXTENDS Integers, Sequences, FiniteSets, TLC

VARIABLES
    request,          \* constructor arguments: user_grades, education_type, cluster_weights
    checker,          \* the GradeChecker instance (NoChecker before __init__)
    programme,        \* the programme record handed to check_programme_requirements
    user_min_grade,   \* the candidate's overall grade argument
    cluster_number,   \* the cluster_number argument (None or a str)
    outcome,          \* what check_programme_requirements did (NoOutcome before the call)
    pc,               \* "new" -> "ready" -> "done" ("off" while the application is modelled)
    clock,            \* datetime.utcnow(), in hours since the process was created
    store,            \* the backing store: "steady", "changing" or "down"
    client,           \* app_globals.client: "none" or "open"
    cache,            \* app_globals.cache: NoCache or the CourseCache instance
    refresh,          \* the refresh_all coroutine in flight, if any
    app,              \* "created", "starting", "serving" or "failed"
    reply             \* what the last call of the cache or of /check answered

engineVars == <<request, checker, programme, user_min_grade, cluster_number, outcome, pc>>

appVars == <<clock, store, client, cache, refresh, app, reply>>

vars == <<engineVars, appVars>>

---------------------------------------------------------------------------
(* str methods *)

UpperChars == <<"A","B","C","D","E","F","G","H","I","J","K","L","M",
                "N","O","P","Q","R","S","T","U","V","W","X","Y","Z">>

LowerChars == <<"a","b","c","d","e","f","g","h","i","j","k","l","m",
                "n","o","p","q","r","s","t","u","v","w","x","y","z">>

DigitChars == <<"0","1","2","3","4","5","6","7","8","9">>

IsDigitChar(c) == \E i \in DOMAIN DigitChars : DigitChars[i] = c

IsSpaceChar(c) == c \in {" ", "\t", "\n", "\r"}

\* the lower-case letter of each upper-case letter, and the reverse
LowerOf == [c \in { UpperChars[i] : i \in DOMAIN UpperChars } |->
               LowerChars[CHOOSE i \in DOMAIN UpperChars : UpperChars[i] = c]]

UpperOf == [c \in { LowerChars[i] : i \in DOMAIN LowerChars } |->
               UpperChars[CHOOSE i \in DOMAIN LowerChars : LowerChars[i] = c]]

CharLower(c) == IF c \in DOMAIN LowerOf THEN LowerOf[c] ELSE c

CharUpper(c) == IF c \in DOMAIN UpperOf THEN UpperOf[c] ELSE c

DigitVal(c) == (CHOOSE i \in DOMAIN DigitChars : DigitChars[i] = c) - 1

\* s.lower()
StrLower(s) == [i \in 1..Len(s) |-> CharLower(s[i])]

\* s.upper()
StrUpper(s) == [i \in 1..Len(s) |-> CharUpper(s[i])]

\* s.strip(): leading and trailing whitespace removed
StrStrip(s) ==
    IF \A i \in 1..Len(s) : IsSpaceChar(s[i])
    THEN << >>
    ELSE LET first == CHOOSE i \in 1..Len(s) :
                         /\ ~IsSpaceChar(s[i])
                         /\ \A j \in 1..(i - 1) : IsSpaceChar(s[j])
             last  == CHOOSE i \in 1..Len(s) :
                         /\ ~IsSpaceChar(s[i])
                         /\ \A j \in (i + 1)..Len(s) : IsSpaceChar(s[j])
         IN  SubSeq(s, first, last)

\* needle in hay (the empty string is in every string)
StrContains(needle, hay) ==
    \E i \in 0..(Len(hay) - Len(needle)) :
        SubSeq(hay, i + 1, i + Len(needle)) = needle

\* "/" in s
HasSlash(s) == \E i \in 1..Len(s) : s[i] = "/"

\* s.split("/"): the list of the pieces between the slashes, empty pieces kept
RECURSIVE StrSplitSlash(_)
StrSplitSlash(s) ==
    IF ~HasSlash(s)
    THEN <<s>>
    ELSE LET i == CHOOSE k \in 1..Len(s) :
                      s[k] = "/" /\ \A j \in 1..(k - 1) : s[j] # "/"
         IN  <<SubSeq(s, 1, i - 1)>> \o StrSplitSlash(SubSeq(s, i + 1, Len(s)))

---------------------------------------------------------------------------
(* Python values *)

PyNone == [t |-> "none", v |-> 0]

\* a key that the mapping does not hold (dict.get falls back to its default)
Absent == [t |-> "absent", v |-> 0]

PyStr(s) == [t |-> "str", v |-> s]

PyInt(n) == [t |-> "int", v |-> n]

\* a float, in thousandths
PyFloat(m) == [t |-> "float", v |-> m]

PyNaN == [t |-> "nan", v |-> 0]

\* an int beyond the range of a float (float() raises OverflowError)
PyHugeInt == [t |-> "hugeint", v |-> 0]

\* a list value (only its type and its truth value matter to the engine)
PyList(n) == [t |-> "list", v |-> n]

\* a dict, as the sequence of its (key, value) pairs in insertion order
PyDict(pairs) == [t |-> "dict", v |-> pairs]

IsStr(x) == x.t = "str"

IsDict(x) == x.t = "dict"

IsNone(x) == x.t = "none"

\* x == ""
IsEmptyStr(x) == x.t = "str" /\ Len(x.v) = 0

\* x == s for a str s
EqStr(x, s) == x.t = "str" /\ x.v = s

\* bool(x): None, "", 0, 0.0, [] and {} are false
Truthy(x) ==
    CASE x.t = "none"   -> FALSE
      [] x.t = "absent" -> FALSE
      [] x.t = "str"    -> Len(x.v) > 0
      [] x.t = "int"    -> x.v # 0
      [] x.t = "float"  -> x.v # 0
      [] x.t = "list"   -> x.v > 0
      [] x.t = "dict"   -> Len(x.v) > 0
      [] OTHER          -> TRUE

\* d.get(key, default) on a PyDict with str keys
DictGet(d, key, default) ==
    IF \E i \in 1..Len(d.v) : EqStr(d.v[i][1], key)
    THEN d.v[CHOOSE i \in 1..Len(d.v) : EqStr(d.v[i][1], key)][2]
    ELSE default

\* programme.get(field, default): a programme is a record of its three
\* requirement fields, each Absent when the document does not hold the key
FieldGet(val, default) == IF val.t = "absent" THEN default ELSE val

\* the decimal digits of a natural number
RECURSIVE NatDigits(_)
NatDigits(n) ==
    IF n < 10 THEN <<DigitChars[n + 1]>>
    ELSE NatDigits(n \div 10) \o <<DigitChars[(n % 10) + 1]>>

\* str(x)
ToStr(x) ==
    CASE x.t = "str"  -> x.v
      [] x.t = "int"  -> IF x.v < 0 THEN <<"-">> \o NatDigits(0 - x.v) ELSE NatDigits(x.v)
      [] x.t = "none" -> <<"N","o","n","e">>
      [] x.t = "list" -> <<"[","]">>
      [] x.t = "dict" -> <<"{","}">>
      [] x.t = "nan"  -> <<"n","a","n">>
      [] OTHER        -> <<"?">>

\* the value of a run of decimal digits
RECURSIVE DigitsVal(_)
DigitsVal(ds) ==
    IF Len(ds) = 0 THEN 0
    ELSE 10 * DigitsVal(SubSeq(ds, 1, Len(ds) - 1)) + DigitVal(ds[Len(ds)])

AllDigits(ds) == \A i \in 1..Len(ds) : IsDigitChar(ds[i])

\* the first three fractional digits, as thousandths
FracMillis(ds) ==
    LET d(i) == IF i <= Len(ds) THEN DigitVal(ds[i]) ELSE 0
    IN  100 * d(1) + 10 * d(2) + d(3)

\* float(s) for a str: surrounding whitespace stripped, an optional sign, then
\* digits with an optional fractional part, or "nan" in any case.  Anything
\* else raises ValueError.  (Exponents, underscores and "inf" are not among the
\* inputs of this model and are read as ValueError.)
ParseFloat(s) ==
    LET Parts(neg, ip, fp) ==
            IF AllDigits(ip) /\ AllDigits(fp) /\ Len(ip) + Len(fp) > 0
            THEN [exc |-> "none",
                  val |-> PyFloat((IF neg THEN 0 - 1 ELSE 1)
                                  * (1000 * DigitsVal(ip) + FracMillis(fp)))]
            ELSE [exc |-> "ValueError", val |-> PyNone]
        Split(neg, num, dot) ==
            Parts(neg, SubSeq(num, 1, dot - 1), SubSeq(num, dot + 1, Len(num)))
        Number(neg, num) ==
            IF StrLower(num) = <<"n","a","n">>
            THEN [exc |-> "none", val |-> PyNaN]
            ELSE Split(neg, num,
                       IF \E i \in 1..Len(num) : num[i] = "."
                       THEN CHOOSE i \in 1..Len(num) : num[i] = "."
                       ELSE Len(num) + 1)
        Signed(body) ==
            Number(Len(body) > 0 /\ body[1] = "-",
                   IF Len(body) > 0 /\ body[1] \in {"+", "-"}
                   THEN SubSeq(body, 2, Len(body)) ELSE body)
    IN  Signed(StrStrip(s))

\* float(x)
ToFloat(x) ==
    CASE x.t = "float"   -> [exc |-> "none", val |-> x]
      [] x.t = "nan"     -> [exc |-> "none", val |-> x]
      [] x.t = "int"     -> [exc |-> "none", val |-> PyFloat(1000 * x.v)]
      [] x.t = "str"     -> ParseFloat(x.v)
      [] x.t = "hugeint" -> [exc |-> "OverflowError", val |-> PyNone]
      [] OTHER           -> [exc |-> "TypeError", val |-> PyNone]

\* a >= b on floats: every comparison with NaN is false
FloatGE(a, b) == a.t = "float" /\ b.t = "float" /\ a.v >= b.v

---------------------------------------------------------------------------
(* GradeChecker *)

\* EducationType
DEGREE == "degree"

DIPLOMA == "diploma"

CERTIFICATE == "cert"

KMTC == "kmtc"

EducationTypes == {DEGREE, DIPLOMA, CERTIFICATE, KMTC}

\* GRADE_POINTS with the points of B+ and B exchanged
GradePointsSwapped ==
    (<<"A">> :> 12) @@ (<<"A","-">> :> 11) @@ (<<"B","+">> :> 9) @@ (<<"B">> :> 10) @@
    (<<"B","-">> :> 8) @@ (<<"C","+">> :> 7) @@ (<<"C">> :> 6) @@ (<<"C","-">> :> 5) @@
    (<<"D","+">> :> 4) @@ (<<"D">> :> 3) @@ (<<"D","-">> :> 2) @@ (<<"E">> :> 1)

\* GradeChecker.GRADE_POINTS
GRADE_POINTS ==
    (<<"A">> :> 12) @@ (<<"A","-">> :> 11) @@ (<<"B","+">> :> 10) @@ (<<"B">> :> 9) @@
    (<<"B","-">> :> 8) @@ (<<"C","+">> :> 7) @@ (<<"C">> :> 6) @@ (<<"C","-">> :> 5) @@
    (<<"D","+">> :> 4) @@ (<<"D">> :> 3) @@ (<<"D","-">> :> 2) @@ (<<"E">> :> 1)

\* GradeChecker.__init__
GradeCheckerInit(user_grades, education_type, cluster_weights) ==
    [user_grades     |-> user_grades,
     education_type  |-> education_type,
     cluster_weights |-> IF Truthy(cluster_weights) THEN cluster_weights ELSE PyDict(<< >>)]

\* _grade_value falling back to 1 instead of 0 for a grade it does not know
GradeValueDefaultOne(grade) ==
    IF ~IsStr(grade) THEN 0
    ELSE LET grade_clean == StrUpper(StrStrip(grade.v))
         IN  IF grade_clean \in DOMAIN GRADE_POINTS THEN GRADE_POINTS[grade_clean] ELSE 1

\* GradeChecker._grade_value
GradeValue(grade) ==
    IF ~IsStr(grade) THEN 0
    ELSE LET grade_clean == StrUpper(StrStrip(grade.v))
         IN  IF grade_clean \in DOMAIN GRADE_POINTS THEN GRADE_POINTS[grade_clean] ELSE 0

\* the loop of _user_has_subject over user_grades.items(), from entry i on
RECURSIVE UserHasSubjectFrom(_, _, _, _)
UserHasSubjectFrom(items, i, subject_lower, required_grade_val) ==
    IF i > Len(items) THEN FALSE
    ELSE LET user_subject == items[i][1]
             user_grade   == items[i][2]
         IN  IF ~IsStr(user_subject) \/ ~IsStr(user_grade)
             THEN UserHasSubjectFrom(items, i + 1, subject_lower, required_grade_val)
             ELSE LET user_subject_lower == StrStrip(StrLower(user_subject.v))
                  IN  IF /\ \/ StrContains(subject_lower, user_subject_lower)
                            \/ StrContains(user_subject_lower, subject_lower)
                         /\ GradeValue(user_grade) >= required_grade_val
                      THEN TRUE
                      ELSE UserHasSubjectFrom(items, i + 1, subject_lower, required_grade_val)

\* _user_has_subject matching in one direction only: the candidate's subject
\* name must contain the required name
RECURSIVE UserHasSubjectOneWayFrom(_, _, _, _)
UserHasSubjectOneWayFrom(items, i, subject_lower, required_grade_val) ==
    IF i > Len(items) THEN FALSE
    ELSE IF /\ IsStr(items[i][1]) /\ IsStr(items[i][2])
            /\ StrContains(subject_lower, StrStrip(StrLower(items[i][1].v)))
            /\ GradeValue(items[i][2]) >= required_grade_val
         THEN TRUE
         ELSE UserHasSubjectOneWayFrom(items, i + 1, subject_lower, required_grade_val)

UserHasSubjectOneWay(self, subject, required_grade) ==
    IF ~IsStr(subject) \/ ~IsStr(required_grade) THEN FALSE
    ELSE UserHasSubjectOneWayFrom(self.user_grades.v, 1,
                                  StrStrip(StrLower(subject.v)), GradeValue(required_grade))

\* _user_has_subject matching no subject with a name that is empty once trimmed
UserHasSubjectNamed(self, subject, required_grade) ==
    IF ~IsStr(subject) \/ ~IsStr(required_grade) THEN FALSE
    ELSE /\ Len(StrStrip(subject.v)) > 0
         /\ UserHasSubjectFrom(self.user_grades.v, 1,
                               StrStrip(StrLower(subject.v)), GradeValue(required_grade))

\* GradeChecker._user_has_subject
UserHasSubject(self, subject, required_grade) ==
    IF ~IsStr(subject) \/ ~IsStr(required_grade) THEN FALSE
    ELSE UserHasSubjectFrom(self.user_grades.v, 1,
                            StrStrip(StrLower(subject.v)), GradeValue(required_grade))

\* all(...) in the place of any(...): every alternative is required
AllAlternatives(self, req_subject, req_grade) ==
    LET subjects == StrSplitSlash(req_subject.v)
    IN  \A k \in 1..Len(subjects) :
            UserHasSubject(self, PyStr(StrStrip(subjects[k])), req_grade)

\* any(self._user_has_subject(s, req_grade) for s in subjects)
AnyAlternative(self, req_subject, req_grade) ==
    LET subjects == StrSplitSlash(req_subject.v)
    IN  \E k \in 1..Len(subjects) :
            UserHasSubject(self, PyStr(StrStrip(subjects[k])), req_grade)

\* the loop of _check_subjects returning False on a malformed entry instead of
\* skipping it
RECURSIVE CheckSubjectsFromRejectMalformed(_, _, _)
CheckSubjectsFromRejectMalformed(self, items, i) ==
    IF i > Len(items) THEN TRUE
    ELSE LET req_subject == items[i][1]
             req_grade   == items[i][2]
         IN  IF \/ ~Truthy(req_subject) \/ ~IsStr(req_subject)
                \/ ~Truthy(req_grade) \/ ~IsStr(req_grade)
             THEN FALSE
             ELSE IF HasSlash(req_subject.v)
             THEN /\ AnyAlternative(self, req_subject, req_grade)
                  /\ CheckSubjectsFromRejectMalformed(self, items, i + 1)
             ELSE /\ UserHasSubject(self, req_subject, req_grade)
                  /\ CheckSubjectsFromRejectMalformed(self, items, i + 1)

\* the loop of _check_subjects over requirements.items(), from entry i on
RECURSIVE CheckSubjectsFrom(_, _, _)
CheckSubjectsFrom(self, items, i) ==
    IF i > Len(items) THEN TRUE
    ELSE LET req_subject == items[i][1]
             req_grade   == items[i][2]
         IN  IF ~Truthy(req_subject) \/ ~IsStr(req_subject)
             THEN CheckSubjectsFrom(self, items, i + 1)
             ELSE IF ~Truthy(req_grade) \/ ~IsStr(req_grade)
             THEN CheckSubjectsFrom(self, items, i + 1)
             ELSE IF HasSlash(req_subject.v)
             THEN IF ~AnyAlternative(self, req_subject, req_grade)
                  THEN FALSE
                  ELSE CheckSubjectsFrom(self, items, i + 1)
             ELSE IF ~UserHasSubject(self, req_subject, req_grade)
                  THEN FALSE
                  ELSE CheckSubjectsFrom(self, items, i + 1)

\* _check_subjects rejecting a requirements value that is not a mapping
CheckSubjectsRejectNonMapping(self, requirements) ==
    IF ~Truthy(requirements)
    THEN [ret |-> TRUE, err |-> FALSE]
    ELSE IF ~IsDict(requirements)
    THEN [ret |-> FALSE, err |-> FALSE]
    ELSE [ret |-> CheckSubjectsFrom(self, requirements.v, 1), err |-> FALSE]

\* _check_subjects answering False when no requirements are declared
CheckSubjectsRequireDeclared(self, requirements) ==
    IF ~Truthy(requirements)
    THEN [ret |-> FALSE, err |-> FALSE]
    ELSE IF ~IsDict(requirements)
    THEN [ret |-> TRUE, err |-> FALSE]
    ELSE [ret |-> CheckSubjectsFrom(self, requirements.v, 1), err |-> FALSE]

\* GradeChecker._check_subjects: ret is the value returned, err whether the
\* except branch ran (nothing in the body raises on the values of this model)
CheckSubjects(self, requirements) ==
    IF ~Truthy(requirements) \/ ~IsDict(requirements)
    THEN [ret |-> TRUE, err |-> FALSE]
    ELSE [ret |-> CheckSubjectsFrom(self, requirements.v, 1), err |-> FALSE]

\* the key "mean_grade"
sMeanGrade == <<"m","e","a","n","_","g","r","a","d","e">>

\* _check_minimum_grade without the mean_grade lookup: a structured minimum
\* grade is compared as it stands
CheckMinimumGradeNoMeanGrade(self, prog, user_grade) ==
    LET prog_min_grade == FieldGet(prog.minimum_grade, PyNone)
    IN  IF IsNone(prog_min_grade) \/ IsEmptyStr(prog_min_grade)
        THEN [ret |-> TRUE, err |-> FALSE]
        ELSE [ret |-> GradeValue(user_grade) >= GradeValue(PyStr(ToStr(prog_min_grade))),
              err |-> FALSE]

\* _check_minimum_grade as it would be if it accepted only the candidate whose
\* overall grade is exactly the minimum
CheckMinimumGradeExact(self, prog, user_grade) ==
    LET prog_min_grade == FieldGet(prog.minimum_grade, PyNone)
    IN  IF IsNone(prog_min_grade) \/ IsEmptyStr(prog_min_grade)
        THEN [ret |-> TRUE, err |-> FALSE]
        ELSE LET grade_value == IF IsDict(prog_min_grade)
                                THEN DictGet(prog_min_grade, sMeanGrade, PyNone)
                                ELSE prog_min_grade
             IN  IF IsDict(prog_min_grade) /\ ~Truthy(grade_value)
                 THEN [ret |-> TRUE, err |-> FALSE]
                 ELSE [ret |-> GradeValue(user_grade) = GradeValue(PyStr(ToStr(grade_value))),
                       err |-> FALSE]

\* GradeChecker._check_minimum_grade
CheckMinimumGrade(self, prog, user_grade) ==
    LET prog_min_grade == FieldGet(prog.minimum_grade, PyNone)
    IN  IF IsNone(prog_min_grade) \/ IsEmptyStr(prog_min_grade)
        THEN [ret |-> TRUE, err |-> FALSE]
        ELSE LET grade_value == IF IsDict(prog_min_grade)
                                THEN DictGet(prog_min_grade, sMeanGrade, PyNone)
                                ELSE prog_min_grade
             IN  IF IsDict(prog_min_grade) /\ ~Truthy(grade_value)
                 THEN [ret |-> TRUE, err |-> FALSE]
                 ELSE [ret |-> GradeValue(user_grade) >= GradeValue(PyStr(ToStr(grade_value))),
                       err |-> FALSE]

\* the body of _check_cutoff_points with its outcomes as parameters: onBadValue
\* is returned when float() raises TypeError or ValueError, onError when it
\* raises anything else, and strict compares with > instead of >=
CutoffPointsVariant(self, prog, cluster_no, onBadValue, onError, strict) ==
    IF self.education_type # DEGREE \/ ~Truthy(cluster_no)
    THEN [ret |-> TRUE, err |-> FALSE]
    ELSE LET prog_cutoff == FieldGet(prog.cut_off_points, PyNone)
         IN  IF IsNone(prog_cutoff) \/ IsEmptyStr(prog_cutoff)
             THEN [ret |-> TRUE, err |-> FALSE]
             ELSE LET cluster_key == <<"c","l">> \o ToStr(cluster_no)
                      user_weight == DictGet(self.cluster_weights, cluster_key, PyFloat(0))
                      conv        == ToFloat(prog_cutoff)
                  IN  IF conv.exc \in {"TypeError", "ValueError"}
                      THEN [ret |-> onBadValue, err |-> FALSE]
                      ELSE IF conv.exc # "none"
                      THEN [ret |-> onError, err |-> TRUE]
                      ELSE [ret |-> /\ FloatGE(user_weight, conv.val)
                                    /\ (strict => user_weight.v # conv.val.v),
                            err |-> FALSE]

\* _check_cutoff_points comparing with > instead of >=
CheckCutoffPointsStrict(self, prog, cluster_no) ==
    CutoffPointsVariant(self, prog, cluster_no, TRUE, FALSE, TRUE)

\* _check_cutoff_points rejecting a cut-off that float() cannot convert
CheckCutoffPointsFailClosed(self, prog, cluster_no) ==
    CutoffPointsVariant(self, prog, cluster_no, FALSE, FALSE, FALSE)

\* _check_cutoff_points whose except branch returns True
CheckCutoffPointsFailOpen(self, prog, cluster_no) ==
    CutoffPointsVariant(self, prog, cluster_no, TRUE, TRUE, FALSE)

\* GradeChecker._check_cutoff_points
CheckCutoffPoints(self, prog, cluster_no) ==
    IF self.education_type # DEGREE \/ ~Truthy(cluster_no)
    THEN [ret |-> TRUE, err |-> FALSE]
    ELSE LET prog_cutoff == FieldGet(prog.cut_off_points, PyNone)
         IN  IF IsNone(prog_cutoff) \/ IsEmptyStr(prog_cutoff)
             THEN [ret |-> TRUE, err |-> FALSE]
             ELSE LET cluster_key == <<"c","l">> \o ToStr(cluster_no)
                      user_weight == DictGet(self.cluster_weights, cluster_key, PyFloat(0))
                      conv        == ToFloat(prog_cutoff)
                  IN  IF conv.exc \in {"TypeError", "ValueError"}
                      THEN [ret |-> TRUE, err |-> FALSE]
                      ELSE IF conv.exc # "none"
                      THEN [ret |-> FALSE, err |-> TRUE]
                      ELSE [ret |-> FloatGE(user_weight, conv.val), err |-> FALSE]

NoOutcome == [ret |-> FALSE, raised |-> FALSE, steps |-> << >>, errors |-> {}]

\* check_programme_requirements without step 1 (no cut-off points check)
CheckProgrammeRequirementsNoCutoff(self, prog, min_grade, cluster_no) ==
    LET c2 == CheckMinimumGrade(self, prog, min_grade)
        c3 == CheckSubjects(self, FieldGet(prog.minimum_subject_requirements, PyDict(<< >>)))
        e2 == IF c2.err THEN {"minimum_grade"} ELSE {}
        e3 == e2 \cup (IF c3.err THEN {"subjects"} ELSE {})
    IN  IF ~c2.ret
        THEN [ret |-> FALSE, raised |-> FALSE, steps |-> <<"minimum_grade">>, errors |-> e2]
        ELSE [ret |-> c3.ret, raised |-> FALSE,
              steps |-> <<"minimum_grade", "subjects">>, errors |-> e3]

\* check_programme_requirements returning after step 2 (the subject
\* requirements are never looked at)
CheckProgrammeRequirementsNoSubjects(self, prog, min_grade, cluster_no) ==
    LET isDegree == self.education_type = DEGREE
        c1 == CheckCutoffPoints(self, prog, cluster_no)
        c2 == CheckMinimumGrade(self, prog, min_grade)
        s1 == IF isDegree THEN <<"cutoff">> ELSE << >>
        e1 == IF isDegree /\ c1.err THEN {"cutoff"} ELSE {}
        e2 == e1 \cup (IF c2.err THEN {"minimum_grade"} ELSE {})
    IN  IF isDegree /\ ~c1.ret
        THEN [ret |-> FALSE, raised |-> FALSE, steps |-> s1, errors |-> e1]
        ELSE [ret |-> c2.ret, raised |-> FALSE,
              steps |-> s1 \o <<"minimum_grade">>, errors |-> e2]

\* GradeChecker.check_programme_requirements: ret is the value returned, raised
\* whether an exception left the method, steps the checks that ran (in order)
\* and errors the checks whose except branch ran.  The three helpers catch
\* every exception themselves, so the method's own except branch has nothing
\* left to catch on a programme that is a mapping.
CheckProgrammeRequirements(self, prog, min_grade, cluster_no) ==
    LET isDegree == self.education_type = DEGREE
        c1 == CheckCutoffPoints(self, prog, cluster_no)
        c2 == CheckMinimumGrade(self, prog, min_grade)
        c3 == CheckSubjects(self, FieldGet(prog.minimum_subject_requirements, PyDict(<< >>)))
        s1 == IF isDegree THEN <<"cutoff">> ELSE << >>
        e1 == IF isDegree /\ c1.err THEN {"cutoff"} ELSE {}
        e2 == e1 \cup (IF c2.err THEN {"minimum_grade"} ELSE {})
        e3 == e2 \cup (IF c3.err THEN {"subjects"} ELSE {})
    IN  IF isDegree /\ ~c1.ret
        THEN [ret |-> FALSE, raised |-> FALSE, steps |-> s1, errors |-> e1]
        ELSE IF ~c2.ret
        THEN [ret |-> FALSE, raised |-> FALSE,
              steps |-> s1 \o <<"minimum_grade">>, errors |-> e2]
        ELSE IF ~c3.ret
        THEN [ret |-> FALSE, raised |-> FALSE,
              steps |-> s1 \o <<"minimum_grade", "subjects">>, errors |-> e3]
        ELSE [ret |-> TRUE, raised |-> FALSE,
              steps |-> s1 \o <<"minimum_grade", "subjects">>, errors |-> e3]

---------------------------------------------------------------------------
(* Inputs *)

\* the longest requirement mapping of the model
MaxReqEntries == 2

sOverall == <<"o","v","e","r","a","l","l">>

sMathematics == <<"m","a","t","h","e","m","a","t","i","c","s">>

sEnglish == <<"e","n","g","l","i","s","h">>

sStatistics == <<"s","t","a","t","i","s","t","i","c","s">>

sMath == <<"m","a","t","h">>

kMathematics == <<"M","a","t","h","e","m","a","t","i","c","s">>

kEnglish == <<"E","n","g","l","i","s","h">>

kPhysics == <<"P","h","y","s","i","c","s">>

kMathStatistics == <<"M","a","t","h","/","S","t","a","t","i","s","t","i","c","s">>

\* "Math " (a trailing blank)
kMathBlank == <<"M","a","t","h"," ">>

G(s) == PyStr(s)

\* user_grades mappings: subject name -> grade
Profiles ==
    { PyDict(<< <<G(sOverall), G(<<"C","+">>)>>, <<G(sMathematics), G(<<"A">>)>>,
                <<G(sEnglish), G(<<"B","+">>)>> >>),
      PyDict(<< <<G(sMathematics), G(<<"A">>)>>, <<G(sEnglish), G(<<"B","+">>)>> >>),
      PyDict(<< <<G(sMathematics), G(<<"B","+">>)>> >>),
      PyDict(<< <<G(sStatistics), G(<<"A">>)>> >>),
      PyDict(<< <<G(sMathematics), G(<<"C">>)>>, <<G(sStatistics), G(<<"C","+">>)>> >>),
      PyDict(<< <<G(sMath), G(<<"B">>)>> >>),
      PyDict(<< <<G(sMathematics), G(<<"Z">>)>> >>),
      PyDict(<< <<G(sEnglish), G(<<"A">>)>>, <<G(sMathematics), G(<<"C">>)>> >>),
      PyDict(<< <<G(kMathematics \o <<" ">>), G(<<" ","b"," ">>)>> >>),
      PyDict(<< >>) }

\* the (key, required grade) entries requirement mappings are made of; the
\* last four are malformed (a key or a grade that is empty or not a str)
ReqEntries ==
    { <<G(kMathematics), G(<<"B">>)>>,
      <<G(kMathStatistics), G(<<"B">>)>>,
      <<G(kEnglish), G(<<"A">>)>>,
      <<G(kMathBlank), G(<<"B">>)>>,
      <<G(kEnglish), G(<<"Z">>)>>,
      <<G(kPhysics), G(<<"C">>)>>,
      <<PyInt(7), G(<<"B">>)>>,
      <<G(<< >>), G(<<"B">>)>>,
      <<G(kPhysics), G(<< >>)>>,
      <<G(kPhysics), PyNone>> }

\* the mappings of n entries with pairwise different keys
RECURSIVE ReqDictsOfLen(_)
ReqDictsOfLen(n) ==
    IF n = 0 THEN { << >> }
    ELSE { Append(d, e) : <<d, e>> \in
             { x \in ReqDictsOfLen(n - 1) \X ReqEntries :
                 \A i \in 1..Len(x[1]) : x[1][i][1] # x[2][1] } }

ReqDicts == UNION { ReqDictsOfLen(n) : n \in 0..MaxReqEntries }

\* values of a programme's minimum_subject_requirements
RequirementValues ==
    { PyDict(d) : d \in ReqDicts } \cup { Absent, PyNone, PyList(1), G(kMathematics) }

\* values of a programme's cut_off_points
CutoffValues ==
    { Absent, PyNone, G(<< >>), PyFloat(30000), PyFloat(34486), PyInt(35), PyInt(0),
      G(<<"3","0",".","0">>), G(<<" ","2","5"," ">>), G(<<"a","b","c">>),
      G(<<"n","a","n">>), PyNaN, PyList(0), PyHugeInt }

\* values of a programme's minimum_grade
MinimumGradeValues ==
    { Absent, PyNone, G(<< >>), G(<<"C">>), G(<<"B">>), G(<<" ","c","+"," ">>),
      G(<<"X">>), PyInt(7), PyList(1),
      PyDict(<< <<G(sMeanGrade), G(<<"C">>)>> >>),
      PyDict(<< <<G(sMeanGrade), G(<<"A","-">>)>> >>),
      PyDict(<< <<G(sMeanGrade), G(<< >>)>> >>),
      PyDict(<< <<G(sMeanGrade), PyNone>> >>),
      PyDict(<< <<G(<<"g","r","a","d","e">>), G(<<"A">>)>> >>),
      PyDict(<< >>) }

\* the cluster_weights argument: None, or a mapping cl<n> -> weight
WeightValues ==
    { PyNone,
      PyDict(<< <<G(<<"c","l","3">>), PyFloat(34486)>> >>),
      PyDict(<< <<G(<<"c","l","3">>), PyFloat(20000)>> >>),
      PyDict(<< <<G(<<"c","l","3">>), PyFloat(30000)>>, <<G(<<"c","l","4">>), PyFloat(50000)>> >>),
      PyDict(<< <<G(<<"c","l","3">>), PyNaN>> >>) }

\* the cluster_number argument
ClusterNumbers == { PyNone, G(<< >>), G(<<"3">>), G(<<"4">>), G(<<"7">>) }

\* the user_min_grade argument
OverallGrades ==
    { G(<<"C","+">>), G(<<"C">>), G(<<"A">>), G(<<"E">>), G(<<"Z">>), G(<< >>), PyNone,
      G(<<"b">>), PyInt(12) }

\* The three checks read disjoint parts of the input: the cut-off check reads
\* (education_type, cluster_weights, cut_off_points, cluster_number), the
\* minimum grade check (minimum_grade, user_min_grade), the subject check
\* (user_grades, minimum_subject_requirements).  Each part ranges over all its
\* values while the other two range over a passing, a failing and an absent
\* representative.
CutoffPart(et, cw, co, cn) == [et |-> et, cw |-> cw, co |-> co, cn |-> cn]

GradePart(mg, ug) == [mg |-> mg, ug |-> ug]

SubjectPart(pr, rq) == [pr |-> pr, rq |-> rq]

WorkedProfile ==
    PyDict(<< <<G(sMathematics), G(<<"A">>)>>, <<G(sEnglish), G(<<"B","+">>)>> >>)

WorkedWeights == PyDict(<< <<G(<<"c","l","3">>), PyFloat(34486)>> >>)

CutoffPartsAll ==
    { CutoffPart(et, cw, co, cn) :
        et \in EducationTypes, cw \in WeightValues, co \in CutoffValues, cn \in ClusterNumbers }

CutoffPartsFew ==
    { CutoffPart(DEGREE, WorkedWeights, PyFloat(30000), G(<<"3">>)),
      CutoffPart(DEGREE, WorkedWeights, PyInt(35), G(<<"3">>)),
      CutoffPart(DIPLOMA, PyNone, Absent, PyNone) }

GradePartsAll == { GradePart(mg, ug) : mg \in MinimumGradeValues, ug \in OverallGrades }

GradePartsFew ==
    { GradePart(G(<<"C">>), G(<<"C","+">>)),
      GradePart(G(<<"B">>), G(<<"C","+">>)),
      GradePart(Absent, G(<<"C","+">>)) }

SubjectPartsAll == { SubjectPart(pr, rq) : pr \in Profiles, rq \in RequirementValues }

SubjectPartsFew ==
    { SubjectPart(WorkedProfile, PyDict(<< <<G(kMathematics), G(<<"B">>)>> >>)),
      SubjectPart(WorkedProfile, PyDict(<< <<G(kPhysics), G(<<"C">>)>> >>)),
      SubjectPart(WorkedProfile, Absent) }

\* every pair of grades of GRADE_POINTS, as minimum grade and overall grade
GradePartsPairs ==
    { GradePart(G(h), G(g)) : g \in DOMAIN GRADE_POINTS, h \in DOMAIN GRADE_POINTS }

\* requirement keys with a name that is empty once trimmed ("Math/", "A//B",
\* " ", "/"), against profiles with and without an entry at or above B
BlankNameParts ==
    { SubjectPart(pr, PyDict(<< <<G(key), G(<<"B">>)>> >>)) :
        pr \in { WorkedProfile,
                 PyDict(<< <<G(sOverall), G(<<"B","+">>)>>, <<G(sEnglish), G(<<"D">>)>> >>),
                 PyDict(<< <<G(sEnglish), G(<<"D">>)>> >>),
                 PyDict(<< >>) },
        key \in { <<"M","a","t","h","/">>, <<"A","/","/","B">>, <<" ">>, <<"/">> } }

Inputs ==
    (CutoffPartsAll \X GradePartsFew \X SubjectPartsFew)
    \cup (CutoffPartsFew \X GradePartsAll \X SubjectPartsFew)
    \cup (CutoffPartsFew \X GradePartsFew \X SubjectPartsAll)
    \cup ({CutoffPart(DIPLOMA, PyNone, Absent, PyNone)} \X GradePartsPairs
             \X {SubjectPart(WorkedProfile, Absent)})
    \cup ({CutoffPart(DIPLOMA, PyNone, Absent, PyNone)}
             \X {GradePart(Absent, G(<<"C","+">>))} \X BlankNameParts)

---------------------------------------------------------------------------
(* The engine as a state machine: construction, then one qualification call *)

NoChecker == [user_grades |-> PyNone, education_type |-> "none", cluster_weights |-> PyNone]

\* app_globals.cache = None
NoCache == [t |-> "none"]

\* no refresh_all in flight, and none run so far
NoRefresh == [pc |-> "idle", i |-> 1, caller |-> "none", before |-> NoCache, read |-> << >>]

NoReply == [op |-> "none"]

\* the application is not part of a run of the engine alone
AppOff ==
    /\ clock = 0
    /\ store = "steady"
    /\ client = "none"
    /\ cache = NoCache
    /\ refresh = NoRefresh
    /\ app = "off"
    /\ reply = NoReply

Init ==
    /\ AppOff
    /\ \E i \in Inputs :
        /\ request = [user_grades     |-> i[3].pr,
                      education_type  |-> i[1].et,
                      cluster_weights |-> i[1].cw]
        /\ programme = [cut_off_points               |-> i[1].co,
                        minimum_grade                |-> i[2].mg,
                        minimum_subject_requirements |-> i[3].rq]
        /\ user_min_grade = i[2].ug
        /\ cluster_number = i[1].cn
        /\ checker = NoChecker
        /\ outcome = NoOutcome
        /\ pc = "new"

\* checker = GradeChecker(user_grades, education_type, cluster_weights)
Construct ==
    /\ pc = "new"
    /\ checker' = GradeCheckerInit(request.user_grades, request.education_type,
                                   request.cluster_weights)
    /\ pc' = "ready"
    /\ UNCHANGED <<request, programme, user_min_grade, cluster_number, outcome, appVars>>

\* a check_programme_requirements that uses up the cluster weights of the
\* checker it is called on
CheckProgrammeConsuming ==
    /\ pc = "ready"
    /\ outcome' = CheckProgrammeRequirements(checker, programme, user_min_grade, cluster_number)
    /\ checker' = [checker EXCEPT !.cluster_weights = PyDict(<< >>)]
    /\ pc' = "done"
    /\ UNCHANGED <<request, programme, user_min_grade, cluster_number, appVars>>

\* checker.check_programme_requirements(programme, user_min_grade, cluster_number)
CheckProgramme ==
    /\ pc = "ready"
    /\ outcome' = CheckProgrammeRequirements(checker, programme, user_min_grade, cluster_number)
    /\ pc' = "done"
    /\ UNCHANGED <<request, checker, programme, user_min_grade, cluster_number, appVars>>

Next == Construct \/ CheckProgramme

Spec == Init /\ [][Next]_vars

---------------------------------------------------------------------------
(* Catalog cache: CourseCache, the application start-up that fills it and  *)
(* the calls that read it.  A cached list is a list object [id, items]:    *)
(* id tells one list object from another, items are the documents it holds *)
(* (by the code that names the document within its category).              *)

\* settings.CACHE_TTL_HOURS, the ttl_hours lifespan hands to CourseCache
CACHE_TTL_HOURS == 6

\* the latest hour of the clock
MaxClock == 9

\* the hours the clock advances at a time
TickHours == 3

\* CourseCache.DIPLOMA_CATEGORIES
DIPLOMA_CATEGORIES ==
    << "Agricultural_Sciences_Related", "Animal_Health_Related", "Applied_Sciences",
       "Building_Construction_Related", "Business_Related", "Clothing_Fashion_Textile",
       "Computing_IT_Related", "Education_Related", "Engineering_Technology_Related",
       "Environmental_Sciences", "Food_Science_Related", "Graphics_MediaStudies_Related",
       "Health_Sciences_Related", "Hospitality_Hotel_Tourism_Related",
       "Library_Information_Science", "Music_Related", "Natural_Sciences_Related",
       "Nutrition_Dietetics", "Social_Sciences", "Tax_Custom_Administration",
       "Technical_Courses" >>

\* CourseCache.CERT_CATEGORIES
CERT_CATEGORIES ==
    << "Agricultural_Sciences_Related", "Animal_Health_Related", "Applied_Sciences",
       "Building_Construction_Related", "Business_Related", "Clothing_Fashion_Textile",
       "Computing_IT_Related", "Engineering_Cert_Related", "Engineering_Technology_Related",
       "Environmental_Sciences", "Food_Science_Related",
       "Graphics_MediaStudies_MediaProduction", "HairDressing_Beauty_Therapy",
       "Health_Sciences_Related", "Hospitality_Hotel_Tourism_Related",
       "Library_Information_Science", "Natural_Sciences_Related", "Nutrition_Dietetics",
       "Social_Sciences", "Tax_Custom_Administration", "clothing" >>

\* CourseCache.KMTC_CATEGORIES
KMTC_CATEGORIES == << "kmtc" >>

\* f"cluster_{i}", tabulated for i in 0..21
ClusterNames ==
    << "cluster_0", "cluster_1", "cluster_2", "cluster_3", "cluster_4", "cluster_5",
       "cluster_6", "cluster_7", "cluster_8", "cluster_9", "cluster_10", "cluster_11",
       "cluster_12", "cluster_13", "cluster_14", "cluster_15", "cluster_16", "cluster_17",
       "cluster_18", "cluster_19", "cluster_20", "cluster_21" >>

ClusterName(i) == ClusterNames[i + 1]

\* range(1, 20) in the place of range(1, 21)
ClusterRangeShort == 1..19

\* range(1, 21)
ClusterRange == 1..20

\* the four dicts of a CourseCache
CacheFields == {"degree_cache", "diploma_cache", "cert_cache", "kmtc_cache"}

\* the keys each loader writes, in the order it writes them
CategoryKeys(f) ==
    CASE f = "degree_cache"  -> [i \in ClusterRange |-> ClusterName(i)]
      [] f = "diploma_cache" -> DIPLOMA_CATEGORIES
      [] f = "cert_cache"    -> CERT_CATEGORIES
      [] f = "kmtc_cache"    -> KMTC_CATEGORIES

\* a datetime, in hours
DateTime(h) == [t |-> "datetime", v |-> h]

\* CourseCache.__init__
CourseCacheInit(ttl_hours) ==
    [t               |-> "CourseCache",
     ttl             |-> ttl_hours,
     cache_timestamp |-> PyNone,
     degree_cache    |-> << >>,
     diploma_cache   |-> << >>,
     cert_cache      |-> << >>,
     kmtc_cache      |-> << >>]

HasCache == cache.t = "CourseCache"

ListObj(id, items) == [id |-> id, items |-> items]

\* d[key] = obj
DictSet(d, key, obj) == [k \in DOMAIN d \cup {key} |-> IF k = key THEN obj ELSE d[k]]

\* d.get(key, []): the default is a new empty list, held by no dict
CacheGet(d, key) == IF key \in DOMAIN d THEN d[key] ELSE ListObj(0, << >>)

\* the categories whose content varies while the store is "changing"
VaryingCategories ==
    { <<"degree_cache", "cluster_2">>, <<"diploma_cache", "Business_Related">> }

\* what db[key].find({}).to_list(None) can do: return the list "A" or the list
\* "B" of the category, return no document ("empty"), or raise ("fail"); in a
\* "churning" store only the degree collections cluster_2 and cluster_19 hold
\* documents, and they change between reads; an "updated" store is the steady
\* one after the documents of cluster_2 were replaced
FindOutcomes(f, key) ==
    IF store = "down" THEN {"fail"}
    ELSE IF store = "changing" /\ <<f, key>> \in VaryingCategories
    THEN {"A", "B", "empty", "fail"}
    ELSE IF store = "churning"
    THEN (IF f = "degree_cache" /\ key \in {"cluster_2", "cluster_19"}
          THEN {"A", "B"} ELSE {"empty"})
    ELSE IF store = "updated" /\ f = "degree_cache" /\ key = "cluster_2"
    THEN {"B"}
    ELSE {"A"}

\* the documents of a returned list
FoundItems(found) ==
    CASE found = "A" -> << <<"a","1">>, <<"a","2">> >>
      [] found = "B" -> << <<"b","1">> >>
      [] OTHER         -> << >>

\* the document a list item stands for (the name of its institution ends with
\* the category); some categories hold records with a
\* malformed field: a cut_off_points that is not a number (the second record
\* of the certificate category Applied_Sciences, the first of cluster_5) and a
\* requirement without a grade (the second record of kmtc, the first of
\* cluster_4)
Document(f, key, code) ==
    LET a1 == code = <<"a","1">>
        a2 == code = <<"a","2">>
        badCutoff == \/ f = "cert_cache" /\ key = "Applied_Sciences" /\ a2
                     \/ f = "degree_cache" /\ key = "cluster_5" /\ a1
        nullGrade == \/ f = "kmtc_cache" /\ a2
                     \/ f = "degree_cache" /\ key = "cluster_4" /\ a1
    IN  [oid              |-> <<f, key, code>>,
         programme_name   |-> G(<<"P">> \o code),
         institution_name |-> G(<<"U","n","i"," ", key>>),
         programme_code   |-> IF a1 THEN PyInt(1101)
                              ELSE IF a2 THEN Absent ELSE G(<<"2","2","0","1">>),
         cut_off_points   |-> IF badCutoff THEN G(<<"a","b","c">>)
                              ELSE IF a1 THEN PyFloat(30000)
                              ELSE IF a2 THEN PyInt(35) ELSE Absent,
         minimum_grade    |-> IF a1 THEN PyDict(<< <<G(sMeanGrade), G(<<"C">>)>> >>)
                              ELSE IF a2 THEN G(<<"C">>) ELSE G(<<"D","+">>),
         minimum_subject_requirements |->
             (IF a1 THEN PyDict(<< <<G(kMathematics), G(<<"B">>)>> >>
                                \o IF nullGrade THEN << <<G(kPhysics), PyNone>> >> ELSE << >>)
              ELSE IF a2 THEN (IF nullGrade THEN PyDict(<< <<G(kPhysics), PyNone>> >>)
                               ELSE Absent)
              ELSE PyDict(<< <<G(kEnglish), G(<<"B">>)>> >>))]

\* an id for the list object a loader creates for key: ids name the list
\* objects of a key that are alive together, so the new one takes the least id
\* that no list still held by the caller of an accessor carries (the list the
\* key was bound to is garbage once the key is rebound, unless a caller holds it)
FreshId(f, key) ==
    LET held == IF reply.op = "get" /\ reply.f = f /\ reply.key = key
                THEN {reply.ret.id} ELSE {}
    IN  CHOOSE n \in (1..2) \ held : \A k \in (1..2) \ held : n <= k

\* the loader writing into the list object the key already holds
LoadedInPlace(c, f, key, found, id) ==
    [c EXCEPT ![f] = DictSet(@, key,
                         ListObj(IF key \in DOMAIN @ THEN @[key].id ELSE id,
                                 FoundItems(found)))]

\* the loader leaving the key as it is when the load fails
LoadedKeepStale(c, f, key, found, id) ==
    IF found = "fail" THEN c
    ELSE [c EXCEPT ![f] = DictSet(@, key, ListObj(id, FoundItems(found)))]

\* the cache after one turn of a loader's loop:
\*     try:    data = await db[key].find({}).to_list(None); self.<f>[key] = data or []
\*     except: self.<f>[key] = []
Loaded(c, f, key, found, id) ==
    [c EXCEPT ![f] = DictSet(@, key, ListObj(id, FoundItems(found)))]

\* refresh_all up to its first await: nothing is written yet.  For the
\* properties, before keeps the lists of the categories this refresh has not
\* reloaded yet, as they were when it started, and read what each load returned.
RefreshStarted(c, caller) ==
    [pc |-> "degree_cache", i |-> 1, caller |-> caller,
     before |-> [f \in CacheFields |-> c[f]],
     read   |-> << >>]

\* d without key
DictDel(d, key) == [k \in DOMAIN d \ {key} |-> d[k]]

\* a loader that writes the timestamp whenever it has loaded its last key
LoadStepStampEarly(f, next) ==
    /\ HasCache
    /\ refresh.pc = f
    /\ refresh.i \in DOMAIN CategoryKeys(f)
    /\ \E found \in FindOutcomes(f, CategoryKeys(f)[refresh.i]) :
          LET key  == CategoryKeys(f)[refresh.i]
              c1   == Loaded(cache, f, key, found, FreshId(f, key))
              last == \A j \in DOMAIN CategoryKeys(f) : j <= refresh.i
          IN  /\ cache' = IF last THEN [c1 EXCEPT !.cache_timestamp = DateTime(clock)] ELSE c1
              /\ refresh' = [refresh EXCEPT !.pc = IF last THEN next ELSE f,
                                            !.i = IF last THEN 1 ELSE @ + 1,
                                            !.before[f] = DictDel(@, key),
                                            !.read = DictSet(@, <<f, key>>, found)]
              /\ app' = IF last /\ next = "idle" /\ refresh.caller = "lifespan"
                        THEN "serving" ELSE app
    /\ UNCHANGED <<clock, store, client, reply, engineVars>>

\* one turn of the loop of the loader of f, from the answer of the store to the
\* next await; after the last key the next loader starts, and after the last
\* loader refresh_all writes cache_timestamp and returns (to initialize and
\* lifespan, which then yields, when lifespan is the caller)
LoadStep(f, next) ==
    /\ HasCache
    /\ refresh.pc = f
    /\ refresh.i \in DOMAIN CategoryKeys(f)
    /\ \E found \in FindOutcomes(f, CategoryKeys(f)[refresh.i]) :
          LET key  == CategoryKeys(f)[refresh.i]
              c1   == Loaded(cache, f, key, found, FreshId(f, key))
              last == \A j \in DOMAIN CategoryKeys(f) : j <= refresh.i
              done == last /\ next = "idle"
          IN  /\ cache' = IF done THEN [c1 EXCEPT !.cache_timestamp = DateTime(clock)] ELSE c1
              /\ refresh' = [refresh EXCEPT !.pc = IF last THEN next ELSE f,
                                            !.i = IF last THEN 1 ELSE @ + 1,
                                            !.before[f] = DictDel(@, key),
                                            !.read = DictSet(@, <<f, key>>, found)]
              /\ app' = IF done /\ refresh.caller = "lifespan" THEN "serving" ELSE app
    /\ UNCHANGED <<clock, store, client, reply, engineVars>>

\* refresh_all ending with an exception: the awaited find of a loader is where
\* the task can be cancelled, and CancelledError is no Exception, so neither
\* the loader's except branch nor that of refresh_all and initialize catches
\* it; the keys loaded so far stay loaded, nothing else is written, and a
\* start-up that was waiting for the refresh fails
RefreshCancelled ==
    /\ HasCache
    /\ refresh.pc \in CacheFields
    /\ refresh' = [refresh EXCEPT !.pc = "cancelled"]
    /\ app' = IF refresh.caller = "lifespan" THEN "failed" ELSE app
    /\ UNCHANGED <<clock, store, client, cache, reply, engineVars>>

\* CourseCache._load_degree_clusters
LoadDegreeClusters == LoadStep("degree_cache", "diploma_cache")

\* CourseCache._load_diploma_categories
LoadDiplomaCategories == LoadStep("diploma_cache", "cert_cache")

\* CourseCache._load_cert_categories
LoadCertCategories == LoadStep("cert_cache", "kmtc_cache")

\* CourseCache._load_kmtc
LoadKmtc == LoadStep("kmtc_cache", "idle")

\* lifespan yielding without waiting for the cache to be initialized
LifespanStartupNoWait ==
    /\ app = "created"
    /\ client' = "open"
    /\ cache' = CourseCacheInit(CACHE_TTL_HOURS)
    /\ refresh' = RefreshStarted(cache', "task")
    /\ app' = "serving"
    /\ UNCHANGED <<clock, store, reply, engineVars>>

\* lifespan, up to the first await of initialize(): the client and the cache
\* are created and refresh_all starts (AsyncIOMotorClient connects lazily, so
\* nothing here depends on the store)
LifespanStartup ==
    /\ app = "created"
    /\ client' = "open"
    /\ cache' = CourseCacheInit(CACHE_TTL_HOURS)
    /\ refresh' = RefreshStarted(cache', "lifespan")
    /\ app' = "starting"
    /\ UNCHANGED <<clock, store, reply, engineVars>>

\* lifespan when AsyncIOMotorClient(settings.MONGO_URI) raises (a URI it cannot
\* parse): the except branch logs and re-raises, the application does not start
LifespanClientError ==
    /\ app = "created"
    /\ app' = "failed"
    /\ UNCHANGED <<clock, store, client, cache, refresh, reply, engineVars>>

\* the application served without its lifespan being run: app_globals.client
\* and app_globals.cache stay None
ServeWithoutLifespan ==
    /\ app = "created"
    /\ app' = "serving"
    /\ UNCHANGED <<clock, store, client, cache, refresh, reply, engineVars>>

\* a call of refresh_all on the running application (the code has no caller
\* for it besides initialize; a scheduler acting on should_refresh would be one)
RefreshAll ==
    /\ app = "serving"
    /\ HasCache
    /\ refresh.pc \in {"idle", "cancelled"}
    /\ refresh' = RefreshStarted(cache, "task")
    /\ UNCHANGED <<clock, store, client, cache, app, reply, engineVars>>

---------------------------------------------------------------------------
(* Two calls of refresh_all in flight together.  Here a turn of a loader is two
   steps, the find that is awaited and the assignment that follows its answer,
   since the other call can run between them. *)

\* two calls that have not started: where each call is (idle, the loader it is
\* in, returned), the key its loader is at, the answer of its find that is
\* awaited (pending) and what it read for cluster_2 (got); which call issued
\* its find of cluster_2 first, which wrote cluster_2 last, the calls that
\* returned in the order they did, and the call whose timestamp the cache holds
NoOverlap ==
    [pc |-> "overlap",
     calls |-> [k \in 1..2 |-> [at |-> "idle", i |-> 1, pending |-> "none", got |-> "none"]],
     first |-> 0, wrote |-> 0, done |-> << >>, stamped_by |-> 0]

\* the documents of cluster_2 are replaced in the store
StoreUpdated ==
    /\ store = "steady"
    /\ app = "serving"
    /\ store' = "updated"
    /\ UNCHANGED <<clock, client, cache, refresh, app, reply, engineVars>>

\* refresh_all behind a lock: a call starts only when no other is in flight
CallRefreshAllSerialized(k) ==
    /\ app = "serving"
    /\ HasCache
    /\ refresh.pc \in {"idle", "overlap"}
    /\ LET r == IF refresh.pc = "overlap" THEN refresh ELSE NoOverlap
       IN  /\ r.calls[k].at = "idle"
           /\ r.calls[3 - k].at \in {"idle", "returned"}
           /\ refresh' = [r EXCEPT !.calls[k].at = "degree_cache"]
    /\ UNCHANGED <<clock, store, client, cache, app, reply, engineVars>>

\* the k-th of two calls of refresh_all on the running application starts:
\* nothing in refresh_all or its callers looks at another call in flight
CallRefreshAll(k) ==
    /\ app = "serving"
    /\ HasCache
    /\ refresh.pc \in {"idle", "overlap"}
    /\ LET r == IF refresh.pc = "overlap" THEN refresh ELSE NoOverlap
       IN  /\ r.calls[k].at = "idle"
           /\ refresh' = [r EXCEPT !.calls[k].at = "degree_cache"]
    /\ UNCHANGED <<clock, store, client, cache, app, reply, engineVars>>

\* a loader of call k awaits db[key].find({}).to_list(None): the store answers
\* with what it holds now
IssueFind(k) ==
    /\ refresh.pc = "overlap"
    /\ refresh.calls[k].at \in CacheFields
    /\ refresh.calls[k].pending = "none"
    /\ LET f   == refresh.calls[k].at
           key == CategoryKeys(f)[refresh.calls[k].i]
           watched == f = "degree_cache" /\ key = "cluster_2"
       IN  \E found \in FindOutcomes(f, key) :
               refresh' = [refresh EXCEPT
                              !.calls[k].pending = found,
                              !.calls[k].got = IF watched THEN found ELSE @,
                              !.first = IF watched /\ @ = 0 THEN k ELSE @]
    /\ UNCHANGED <<clock, store, client, cache, app, reply, engineVars>>

\* the loader of call k resumes with the answer and binds the key to it; after
\* the last key of a family the next loader starts, and after kmtc refresh_all
\* writes the timestamp and returns
CompleteFind(k) ==
    /\ refresh.pc = "overlap"
    /\ refresh.calls[k].at \in CacheFields
    /\ refresh.calls[k].pending # "none"
    /\ LET f    == refresh.calls[k].at
           key  == CategoryKeys(f)[refresh.calls[k].i]
           c1   == Loaded(cache, f, key, refresh.calls[k].pending, FreshId(f, key))
           last == \A j \in DOMAIN CategoryKeys(f) : j <= refresh.calls[k].i
           next == CASE f = "degree_cache"  -> "diploma_cache"
                     [] f = "diploma_cache" -> "cert_cache"
                     [] f = "cert_cache"    -> "kmtc_cache"
                     [] f = "kmtc_cache"    -> "returned"
           done == last /\ next = "returned"
       IN  /\ cache' = IF done THEN [c1 EXCEPT !.cache_timestamp = DateTime(clock)] ELSE c1
           /\ refresh' = [refresh EXCEPT
                              !.calls[k].pending = "none",
                              !.calls[k].at = IF last THEN next ELSE f,
                              !.calls[k].i = IF last THEN 1 ELSE @ + 1,
                              !.wrote = IF f = "degree_cache" /\ key = "cluster_2"
                                        THEN k ELSE @,
                              !.done = IF done THEN Append(@, k) ELSE @,
                              !.stamped_by = IF done THEN k ELSE @]
    /\ UNCHANGED <<clock, store, client, app, reply, engineVars>>

---------------------------------------------------------------------------
\* time passes
Tick ==
    /\ clock + TickHours <= MaxClock
    /\ clock' = clock + TickHours
    /\ UNCHANGED <<store, client, cache, refresh, app, reply, engineVars>>

\* should_refresh comparing with >= instead of >
ShouldRefreshAtTtl(c, now) ==
    IF ~Truthy(c.cache_timestamp) THEN TRUE
    ELSE now - c.cache_timestamp.v >= c.ttl

\* CourseCache.should_refresh
ShouldRefreshOf(c, now) ==
    IF ~Truthy(c.cache_timestamp) THEN TRUE
    ELSE now - c.cache_timestamp.v > c.ttl

ShouldRefresh ==
    /\ HasCache
    /\ reply' = [op |-> "should_refresh", ret |-> ShouldRefreshOf(cache, clock),
                 now |-> clock, stamp |-> cache.cache_timestamp]
    /\ UNCHANGED <<clock, store, client, cache, refresh, app, engineVars>>

\* the answer of an accessor, with what the properties need to know of the
\* moment of the call: whether a refresh_all was in flight, whether it had
\* reloaded the key, the list the key held when it started (for a key not
\* reloaded yet) and the documents it had read for the key (for a reloaded one)
GetReply(f, key, obj) ==
    LET during   == refresh.pc # "idle"
        reloaded == during /\ <<f, key>> \in DOMAIN refresh.read
    IN  [op |-> "get", f |-> f, key |-> key, ret |-> obj,
         during    |-> during,
         reloaded  |-> reloaded,
         pre       |-> IF during /\ ~reloaded THEN CacheGet(refresh.before[f], key)
                       ELSE ListObj(0, << >>),
         installed |-> IF reloaded THEN FoundItems(refresh.read[<<f, key>>]) ELSE << >>]

\* an accessor written with setdefault: a lookup binds an unknown key
GetAndBind(f, key) ==
    /\ HasCache
    /\ reply' = GetReply(f, key, CacheGet(cache[f], key))
    /\ cache' = [cache EXCEPT ![f] = DictSet(@, key, CacheGet(cache[f], key))]
    /\ UNCHANGED <<clock, store, client, refresh, app, engineVars>>

\* self.<f>.get(key, [])
Get(f, key) ==
    /\ HasCache
    /\ reply' = GetReply(f, key, CacheGet(cache[f], key))
    /\ UNCHANGED <<clock, store, client, cache, refresh, app, engineVars>>

\* CourseCache.get_degree_cluster, for a cluster the cache loads and for one it
\* does not
GetDegreeCluster == \E cluster_no \in {2, 21} : Get("degree_cache", ClusterName(cluster_no))

\* CourseCache.get_diploma_category ("clothing" is a certificate category only)
GetDiplomaCategory ==
    \E category \in {"Business_Related", "clothing"} : Get("diploma_cache", category)

\* CourseCache.get_cert_category
GetCertCategory == \E category \in {"Business_Related"} : Get("cert_cache", category)

\* CourseCache.get_kmtc
GetKmtc == Get("kmtc_cache", "kmtc")

---------------------------------------------------------------------------
(* The /check handler (api/endpoints/courses.py) *)

\* validators.VALID_GRADES
VALID_GRADES ==
    { <<"A">>, <<"A","-">>, <<"B","+">>, <<"B">>, <<"B","-">>, <<"C","+">>, <<"C">>,
      <<"C","-">>, <<"D","+">>, <<"D">>, <<"D","-">>, <<"E">> }

\* validate_subjects without the check of the grades
ValidateSubjectsAnyGrade(subjects) ==
    /\ Len(subjects) > 0
    /\ Len(subjects) <= 15

\* validators.validate_subjects
ValidateSubjects(subjects) ==
    /\ Len(subjects) > 0
    /\ Len(subjects) <= 15
    /\ \A n \in 1..Len(subjects) : subjects[n].grade \in VALID_GRADES

\* grade_dict[subject.subject.lower()] = subject.grade, for the first n subjects
RECURSIVE GradeDict(_, _)
GradeDict(subjects, n) ==
    IF n = 0 THEN << >>
    ELSE LET d    == GradeDict(subjects, n - 1)
             name == StrLower(subjects[n].subject)
             pair == <<G(name), G(subjects[n].grade)>>
         IN  IF \E k \in 1..Len(d) : d[k][1].v = name
             THEN [k \in 1..Len(d) |-> IF d[k][1].v = name THEN pair ELSE d[k]]
             ELSE Append(d, pair)

\* min_grade: the grade of the last subject named "overall", None without one
OverallOf(subjects) ==
    LET hits == { n \in 1..Len(subjects) : StrLower(subjects[n].subject) = sOverall }
    IN  IF hits = {} THEN PyNone
        ELSE G(subjects[CHOOSE n \in hits : \A m \in hits : m <= n].grade)

\* _safe_programme: the fields of a response entry; float() raising on
\* cut_off_points sends the whole conversion to the except branch, which
\* answers an entry with blank names
SafeProgramme(p) ==
    LET min_grade   == FieldGet(p.minimum_grade, PyDict(<< >>))
        grade_value == IF IsDict(min_grade) THEN DictGet(min_grade, sMeanGrade, G(<< >>))
                       ELSE IF Truthy(min_grade) THEN PyStr(ToStr(min_grade)) ELSE PyNone
        conv        == ToFloat(FieldGet(p.cut_off_points, PyFloat(0)))
        rq          == p.minimum_subject_requirements
    IN  IF Truthy(p.cut_off_points) /\ conv.exc # "none"
        THEN [institution_name |-> G(<< >>), programme_name |-> G(<< >>),
              programme_code |-> PyNone, cut_off_points |-> PyNone,
              minimum_grade |-> PyNone, minimum_subject_requirements |-> PyDict(<< >>)]
        ELSE [institution_name |-> PyStr(ToStr(FieldGet(p.institution_name, G(<< >>)))),
              programme_name   |-> PyStr(ToStr(FieldGet(p.programme_name, G(<< >>)))),
              programme_code   |-> IF Truthy(p.programme_code)
                                   THEN PyStr(ToStr(p.programme_code)) ELSE PyNone,
              cut_off_points   |-> IF Truthy(p.cut_off_points) THEN conv.val ELSE PyNone,
              minimum_grade    |-> grade_value,
              minimum_subject_requirements |-> IF IsDict(rq) THEN rq ELSE PyDict(<< >>)]

\* whether Programme(**safe_p) validates: minimum_grade is Optional[str] and
\* minimum_subject_requirements is Dict[str, str]
ProgrammeValid(sp) ==
    /\ IsNone(sp.minimum_grade) \/ IsStr(sp.minimum_grade)
    /\ \A k \in 1..Len(sp.minimum_subject_requirements.v) :
          /\ IsStr(sp.minimum_subject_requirements.v[k][1])
          /\ IsStr(sp.minimum_subject_requirements.v[k][2])

\* the cache field a request's education_type sweeps
FamilyOf(education_type) ==
    CASE education_type = DEGREE      -> "degree_cache"
      [] education_type = DIPLOMA     -> "diploma_cache"
      [] education_type = CERTIFICATE -> "cert_cache"
      [] education_type = KMTC        -> "kmtc_cache"

\* the inner loop of a sweep from the n-th programme of a category on: the
\* programmes the engine accepts and Programme(**_safe_programme(p)) validates,
\* converted, in cache order (a ValidationError is logged and the loop goes on)
RECURSIVE QualifiedFrom(_, _, _, _, _, _, _)
QualifiedFrom(chk, min_grade, f, key, items, cluster_no, n) ==
    IF n > Len(items) THEN << >>
    ELSE (IF /\ CheckProgrammeRequirements(chk, Document(f, key, items[n]),
                                           min_grade, cluster_no).ret
             /\ ProgrammeValid(SafeProgramme(Document(f, key, items[n])))
          THEN << SafeProgramme(Document(f, key, items[n])) >>
          ELSE << >>)
         \o QualifiedFrom(chk, min_grade, f, key, items, cluster_no, n + 1)

\* the lists a sweep gets from the cache, one for each category of the family
\* in the order of the sweep: cache.get_degree_cluster(cluster_no),
\* get_diploma_category(category), get_cert_category(category), get_kmtc()
SeenBy(c, f) == [n \in DOMAIN CategoryKeys(f) |-> CacheGet(c[f], CategoryKeys(f)[n]).items]

\* _check_degree, _check_diploma, _check_certificate, _check_kmtc over the
\* lists they got: one ClusterResult for each category with a qualified
\* programme, in the order of the categories (the degree sweep hands
\* str(cluster_no) to the engine, the others nothing)
Sweep(lists, chk, min_grade, f) ==
    LET Group(n) ==
            [cluster_name |-> CategoryKeys(f)[n],
             programmes   |-> QualifiedFrom(chk, min_grade, f, CategoryKeys(f)[n], lists[n],
                                            IF f = "degree_cache" THEN G(NatDigits(n))
                                            ELSE PyNone, 1)]
        HasQualified(g) == Len(g.programmes) > 0
    IN  SelectSeq([n \in DOMAIN lists |-> Group(n)], HasQualified)

\* the number of programmes a sweep hands to the engine
RECURSIVE EvaluatedFrom(_, _)
EvaluatedFrom(lists, n) ==
    IF n > Len(lists) THEN 0 ELSE Len(lists[n]) + EvaluatedFrom(lists, n + 1)

\* an HTTPException, or the 422 answer to a body that fails validation: nothing
\* was evaluated or saved for the request (seen, during and reloaded record
\* what a sweep read and when, see CheckCoursesReply)
Rejected(status, body) ==
    [op |-> "check", status |-> status, body |-> body, constructed |-> FALSE,
     seen |-> << >>, during |-> FALSE, reloaded |-> 0, results |-> << >>,
     evaluated |-> 0, stamp |-> PyNone, persisted |-> FALSE]

\* CourseCheckRequest.validate_cluster_weights, for a degree request: the value
\* is a dict, its key set is that of expected_clusters, and float() converts
\* every weight to a number that is neither < 0 nor > 100
ValidateClusterWeights(education_type, v) ==
    \/ education_type # DEGREE
    \/ /\ ~IsNone(v)
       /\ IsDict(v)
       /\ { v.v[k][1].v : k \in 1..Len(v.v) }
              = { <<"c","l">> \o NatDigits(i) : i \in 1..20 }
       /\ \A k \in 1..Len(v.v) :
             /\ ToFloat(v.v[k][2]).exc = "none"
             /\ ToFloat(v.v[k][2]).val.t = "float"
                   => ToFloat(v.v[k][2]).val.v \in 0..100000

\* whether a JSON body validates as a CourseCheckRequest (email and
\* index_number are left out): subjects has at least one item, a subject name
\* at least one character and a grade one or two; the validator of
\* cluster_weights runs on a value the body supplies (null included) and not
\* on the default None of a body without the field
CourseCheckRequestValid(body) ==
    /\ Len(body.subjects) >= 1
    /\ \A n \in 1..Len(body.subjects) :
          /\ Len(body.subjects[n].subject) >= 1
          /\ Len(body.subjects[n].grade) \in 1..2
    /\ body.cluster_weights.t # "absent"
          => ValidateClusterWeights(body.education_type, body.cluster_weights)

\* JSON bodies of POST /check
Subject(name, grade) == [subject |-> name, grade |-> grade]

ExampleSubjects ==
    << Subject(sOverall, <<"C","+">>), Subject(kMathematics, <<"A">>),
       Subject(sEnglish, <<"B","+">>) >>

RequestBodies ==
    LET Weights(keys, w) ==
            PyDict([i \in 1..keys |-> <<G(<<"c","l">> \o NatDigits(i)),
                                        IF i = 3 THEN w ELSE PyFloat(34486)>>])
        Degree(weights) ==
            [education_type |-> DEGREE, subjects |-> ExampleSubjects,
             cluster_weights |-> weights]
        Kmtc(subjects) ==
            [education_type |-> KMTC, subjects |-> subjects, cluster_weights |-> PyNone]
    IN  { Degree(Weights(20, PyFloat(34486))),
          [education_type |-> DIPLOMA, subjects |-> ExampleSubjects, cluster_weights |-> PyNone],
          [education_type |-> CERTIFICATE, subjects |-> ExampleSubjects, cluster_weights |-> PyNone],
          Kmtc(ExampleSubjects),
          [education_type |-> DIPLOMA, subjects |-> SubSeq(ExampleSubjects, 2, 3),
           cluster_weights |-> PyNone],
          Kmtc(<< Subject(sOverall, <<"C","+">>), Subject(sEnglish, <<"F">>) >>),
          \* cluster weights with another key set, or none
          Degree(Weights(19, PyFloat(34486))),
          Degree(Weights(21, PyFloat(34486))),
          Degree(PyDict(<< >>)),
          Degree(PyNone),
          Degree(Absent),
          Degree(Weights(20, PyInt(150))),
          \* no subject, sixteen subjects, a grade of three characters
          Kmtc(<< >>),
          Kmtc([n \in 1..16 |-> IF n = 1 THEN Subject(sOverall, <<"C","+">>)
                                ELSE Subject(kMathematics \o NatDigits(n), <<"B">>)]),
          Kmtc(<< Subject(sOverall, <<"C","+">>), Subject(sEnglish, <<"A","B","C">>) >>) }

\* check_courses with its dependencies: get_db_by_name(PAYMENTS_DB) and
\* get_cache answer 503 when app_globals.client or app_globals.cache is None;
\* a body that does not validate as a CourseCheckRequest is answered 422
\* before the handler runs; validate_subjects and the missing overall grade
\* answer 400; then the checker is built (cluster_weights or {}), the family of
\* the request is swept (no await in a sweep) and the result is saved; the
\* writes to the payments database raise when the store is down, which the
\* handler turns into 500.  The reply records the lists the sweep got (seen),
\* whether a refresh_all was in flight then (during) and how many keys of the
\* family it had reloaded (reloaded)
CheckCoursesReply(body) ==
    IF client = "none" \/ ~HasCache THEN Rejected(503, body)
    ELSE IF ~CourseCheckRequestValid(body) THEN Rejected(422, body)
    ELSE IF ~ValidateSubjects(body.subjects) THEN Rejected(400, body)
    ELSE IF ~Truthy(OverallOf(body.subjects)) THEN Rejected(400, body)
    ELSE LET f   == FamilyOf(body.education_type)
             chk == GradeCheckerInit(PyDict(GradeDict(body.subjects, Len(body.subjects))),
                                     body.education_type,
                                     IF Truthy(FieldGet(body.cluster_weights, PyNone))
                                     THEN body.cluster_weights ELSE PyDict(<< >>))
         IN  [op          |-> "check",
              status      |-> IF store = "down" THEN 500 ELSE 200,
              body        |-> body,
              constructed |-> TRUE,
              seen        |-> SeenBy(cache, f),
              during      |-> refresh.pc \in CacheFields,
              reloaded    |-> IF refresh.pc \in CacheFields
                              THEN Cardinality({ n \in DOMAIN CategoryKeys(f) :
                                       <<f, CategoryKeys(f)[n]>> \in DOMAIN refresh.read })
                              ELSE 0,
              results     |-> Sweep(SeenBy(cache, f), chk, OverallOf(body.subjects), f),
              evaluated   |-> EvaluatedFrom(SeenBy(cache, f), 1),
              stamp       |-> cache.cache_timestamp,
              persisted   |-> store # "down"]

\* check_courses with an await between the tenth and the eleventh category of
\* a sweep: the sweep is two steps, and the lists of the first ten categories
\* are those of the first step
CheckCoursesSuspending(bodies) ==
    /\ app = "serving"
    /\ \E body \in bodies :
          IF ~(CheckCoursesReply(body).status \in {200, 500})
          THEN reply' = CheckCoursesReply(body)
          ELSE IF reply.op = "sweeping" /\ reply.body = body
          THEN reply' = [CheckCoursesReply(body) EXCEPT
                            !.seen = [n \in DOMAIN @ |-> IF n <= 10 THEN reply.seen[n]
                                                         ELSE @[n]]]
          ELSE reply' = [op |-> "sweeping", body |-> body,
                         seen |-> CheckCoursesReply(body).seen]
    /\ UNCHANGED <<clock, store, client, cache, refresh, app, engineVars>>

\* POST /check with one of the bodies: the handler runs from the request to the
\* response in one step as far as the cache is concerned (its only awaits are
\* the writes to the payments database, after the sweep)
CheckCoursesOf(bodies) ==
    /\ app = "serving"
    /\ \E body \in bodies : reply' = CheckCoursesReply(body)
    /\ UNCHANGED <<clock, store, client, cache, refresh, app, engineVars>>

CheckCourses == CheckCoursesOf(RequestBodies)

\* POST /check of a degree candidate with all twenty weights
CheckDegreeCourses ==
    CheckCoursesOf({ body \in RequestBodies :
                        /\ body.education_type = DEGREE
                        /\ body.cluster_weights # Absent
                        /\ CourseCheckRequestValid(body) })

---------------------------------------------------------------------------
(* The application as a state machine *)

\* the engine is not part of a run of the application
EngineOff ==
    /\ request = [user_grades |-> PyNone, education_type |-> "none", cluster_weights |-> PyNone]
    /\ programme = [cut_off_points |-> Absent, minimum_grade |-> Absent,
                    minimum_subject_requirements |-> Absent]
    /\ user_min_grade = PyNone
    /\ cluster_number = PyNone
    /\ checker = NoChecker
    /\ outcome = NoOutcome
    /\ pc = "off"

\* the process after import: create_app() has run, app_globals holds nothing
InitApp(stores) ==
    /\ EngineOff
    /\ clock = 0
    /\ store \in stores
    /\ client = "none"
    /\ cache = NoCache
    /\ refresh = NoRefresh
    /\ app = "created"
    /\ reply = NoReply

LoadNext == LoadDegreeClusters \/ LoadDiplomaCategories \/ LoadCertCategories \/ LoadKmtc

\* the cache and its refreshes
NextCache == LifespanStartup \/ LoadNext \/ RefreshAll

SpecCache == InitApp({"steady", "changing", "down"}) /\ [][NextCache]_vars

\* the cache, its refreshes and its readers
NextReaders ==
    \/ LifespanStartup \/ LoadNext \/ RefreshAll
    \/ GetDegreeCluster \/ GetDiplomaCategory \/ GetCertCategory \/ GetKmtc

SpecReaders == InitApp({"steady", "changing", "down"}) /\ [][NextReaders]_vars

\* the cache and its clock
NextTtl ==
    \/ LifespanStartup \/ LoadNext \/ RefreshAll \/ RefreshCancelled
    \/ Tick \/ ShouldRefresh

SpecTtl == InitApp({"steady"}) /\ [][NextTtl]_vars

\* the application and its requests
NextServe ==
    \/ LifespanStartup \/ LifespanClientError \/ ServeWithoutLifespan
    \/ LoadNext \/ CheckCourses

SpecServe == InitApp({"steady", "down"}) /\ [][NextServe]_vars

\* two calls of refresh_all on the running application, and a store that is
\* updated once
NextOverlap ==
    \/ LifespanStartup \/ LoadNext \/ StoreUpdated
    \/ \E k \in 1..2 : CallRefreshAll(k) \/ IssueFind(k) \/ CompleteFind(k)

SpecOverlap == InitApp({"steady"}) /\ [][NextOverlap]_vars

\* requests served while the cache is refreshed from a changing store
NextSweep == LifespanStartup \/ LoadNext \/ RefreshAll \/ CheckDegreeCourses

SpecSweep == InitApp({"churning"}) /\ [][NextSweep]_vars

---------------------------------------------------------------------------
(* Properties of the engine *)

Done == pc = "done"

IsDegree == checker.education_type = DEGREE

\* what each check answers on the state's inputs
CutoffRet == CheckCutoffPoints(checker, programme, cluster_number).ret

MinimumGradeRet == CheckMinimumGrade(checker, programme, user_min_grade).ret

SubjectsRet ==
    CheckSubjects(checker, FieldGet(programme.minimum_subject_requirements, PyDict(<< >>))).ret

\* the checks that run, in order, up to and including the first that fails
ExpectedSteps ==
    LET pre == IF IsDegree THEN <<"cutoff">> ELSE << >>
    IN  IF IsDegree /\ ~CutoffRet THEN pre
        ELSE IF ~MinimumGradeRet THEN pre \o <<"minimum_grade">>
        ELSE pre \o <<"minimum_grade", "subjects">>

\* the worked scenario: a cluster-3 degree programme with cut-off 30.0, minimum
\* grade C and {Mathematics: B}; a candidate with overall grade C+, subjects
\* {mathematics: A, english: B+} and cl3 = 34.486
WorkedScenario ==
    /\ request.education_type = DEGREE
    /\ request.user_grades = WorkedProfile
    /\ request.cluster_weights = WorkedWeights
    /\ programme = [cut_off_points               |-> PyFloat(30000),
                    minimum_grade                |-> G(<<"C">>),
                    minimum_subject_requirements |-> PyDict(<< <<G(kMathematics), G(<<"B">>)>> >>)]
    /\ user_min_grade = G(<<"C","+">>)
    /\ cluster_number = G(<<"3">>)

\* C1: check_programme_requirements returns true exactly when the cut-off
\* points check (degree family only), the minimum grade check and the subject
\* requirements check all pass; the checks run in that order and the method
\* stops at the first that fails; the worked scenario qualifies.
C1_QualifiesIffAllChecksPass ==
    Done =>
        /\ outcome.ret = ((IsDegree => CutoffRet) /\ MinimumGradeRet /\ SubjectsRet)
        /\ outcome.steps = ExpectedSteps
        /\ (WorkedScenario => outcome.ret)

C1_Witness == Done /\ WorkedScenario /\ outcome.ret
                   /\ outcome.steps = <<"cutoff", "minimum_grade", "subjects">>

\* requirement mappings of at most one entry, and the values that are no mapping
FewRequirementValues ==
    { rq \in RequirementValues : IsDict(rq) => Len(rq.v) <= 1 }

\* C2: for a degree-family engine, a programme whose cut-off points check fails
\* is rejected, and stays rejected with its minimum_grade and
\* minimum_subject_requirements replaced by any other value (absent, valid or
\* malformed).  (The replaced programme does not depend on the two fields it
\* had, so the replacements are tried from the programme that declares neither.)
C2_CutoffFailureRejects ==
    (Done /\ IsDegree /\ ~CutoffRet) =>
        /\ ~outcome.ret
        /\ (programme.minimum_grade.t = "absent"
               /\ programme.minimum_subject_requirements.t = "absent") =>
              \A mg \in MinimumGradeValues, rq \in FewRequirementValues :
                  ~CheckProgrammeRequirements(
                       checker,
                       [programme EXCEPT !.minimum_grade = mg,
                                         !.minimum_subject_requirements = rq],
                       user_min_grade, cluster_number).ret

\* the worked scenario with cl3 = 20.0: rejected at step 1, although the
\* minimum grade and the subject requirements are met
C2_Witness ==
    /\ Done /\ IsDegree /\ ~CutoffRet /\ ~outcome.ret
    /\ MinimumGradeRet /\ SubjectsRet
    /\ Truthy(FieldGet(programme.minimum_grade, PyNone))
    /\ Truthy(FieldGet(programme.minimum_subject_requirements, PyNone))

\* a cluster number was supplied (a non-empty str)
ClusterSupplied == IsStr(cluster_number) /\ Len(cluster_number.v) > 0

\* the programme's cut-off is a number: a float, an int, or a str holding a
\* decimal literal
NumericCutoff ==
    LET co == programme.cut_off_points
    IN  \/ co.t \in {"float", "int"}
        \/ co.t = "str" /\ ToFloat(co).exc = "none" /\ ToFloat(co).val.t = "float"

\* that number, in thousandths
CutoffMillis ==
    LET co == programme.cut_off_points
    IN  IF co.t = "float" THEN co.v
        ELSE IF co.t = "int" THEN 1000 * co.v
        ELSE ToFloat(co).val.v

\* the candidate's weight for the supplied cluster: the entry of the weights
\* under "cl" followed by the cluster number, 0.0 when there is none
CandidateWeight ==
    LET key  == <<"c","l">> \o cluster_number.v
        cw   == checker.cluster_weights.v
        hits == { i \in 1..Len(cw) : cw[i][1].v = key }
    IN  IF hits = {} THEN PyFloat(0) ELSE cw[CHOOSE i \in hits : TRUE][2]

WeightAtLeastCutoff == CandidateWeight.t = "float" /\ CandidateWeight.v >= CutoffMillis

\* C3: degree family, a cluster number n supplied and a numeric cut-off
\* declared: the cut-off points check passes if and only if the candidate's
\* weight under cl<n> is >= the cut-off, a candidate without an entry for
\* cl<n> having weight 0.0.
C3_CutoffIffWeightAtLeast ==
    (Done /\ IsDegree /\ ClusterSupplied /\ NumericCutoff) =>
        /\ CutoffRet = WeightAtLeastCutoff
        /\ (outcome.steps = <<"cutoff">>) = ~WeightAtLeastCutoff
        /\ outcome.ret => WeightAtLeastCutoff

\* the weight equals the cut-off (30.0 against 30.0) and the check passes
C3_Witness ==
    /\ Done /\ IsDegree /\ ClusterSupplied /\ NumericCutoff
    /\ CandidateWeight.t = "float" /\ CandidateWeight.v = CutoffMillis
    /\ CutoffMillis > 0
    /\ Len(outcome.steps) > 1

\* float() cannot convert the programme's cut-off (TypeError or ValueError)
UnparsableCutoff ==
    LET co == programme.cut_off_points
    IN  \/ co.t = "list"
        \/ co.t = "str" /\ Len(co.v) > 0 /\ ToFloat(co).exc = "ValueError"

NoCutoffDeclared ==
    LET co == programme.cut_off_points
    IN  co.t \in {"absent", "none"} \/ IsEmptyStr(co)

\* C4: the cut-off points check never rejects when the family is diploma,
\* certificate or medical-training, when no cluster number is supplied, when
\* the programme's cut_off_points is absent or empty, or when it cannot be
\* parsed as a number: the outcome is then that of the other two checks.
C4_CutoffVacuousPass ==
    (Done /\ (~IsDegree \/ ~ClusterSupplied \/ NoCutoffDeclared \/ UnparsableCutoff)) =>
        /\ CutoffRet
        /\ outcome.steps # <<"cutoff">>
        /\ outcome.ret = (MinimumGradeRet /\ SubjectsRet)

\* a degree check with cluster 3 and a weight of 20.0 on a programme whose
\* cut-off is the text "abc" qualifies
C4_Witness ==
    /\ Done /\ IsDegree /\ ClusterSupplied /\ UnparsableCutoff
    /\ programme.cut_off_points.t = "str"
    /\ outcome.ret

\* the rank of a grade: its place in E < D- < D < D+ < C- < C < C+ < B- < B <
\* B+ < A- < A after trimming and upper-casing, 0 for anything else
GradeOrder ==
    << <<"E">>, <<"D","-">>, <<"D">>, <<"D","+">>, <<"C","-">>, <<"C">>,
       <<"C","+">>, <<"B","-">>, <<"B">>, <<"B","+">>, <<"A","-">>, <<"A">> >>

Rank(x) ==
    IF ~IsStr(x) THEN 0
    ELSE LET g    == StrUpper(StrStrip(x.v))
             hits == { i \in 1..Len(GradeOrder) : GradeOrder[i] = g }
         IN  IF hits = {} THEN 0 ELSE CHOOSE i \in hits : TRUE

\* the value under mean_grade of a structured minimum grade (None without one)
MeanGradeOf(mg) ==
    LET hits == { i \in 1..Len(mg.v) : EqStr(mg.v[i][1], sMeanGrade) }
    IN  IF hits = {} THEN PyNone ELSE mg.v[CHOOSE i \in hits : TRUE][2]

ExpectedMinimumGrade ==
    LET mg == programme.minimum_grade
    IN  IF mg.t \in {"absent", "none"} \/ IsEmptyStr(mg) THEN TRUE
        ELSE IF IsDict(mg)
        THEN IF MeanGradeOf(mg).t = "none" \/ IsEmptyStr(MeanGradeOf(mg)) THEN TRUE
             ELSE Rank(user_min_grade) >= Rank(MeanGradeOf(mg))
        ELSE Rank(user_min_grade) >= Rank(mg)

\* C5: the minimum grade check passes when the programme declares no minimum
\* grade; for a structured minimum_grade the grade compared is the one under
\* mean_grade, a missing or empty mean_grade passing; otherwise it passes if
\* and only if rank(overall grade) >= rank(minimum grade).
C5_MinimumGradeCheck ==
    Done =>
        /\ MinimumGradeRet = ExpectedMinimumGrade
        /\ outcome.ret => ExpectedMinimumGrade
        /\ (Len(outcome.steps) > 0 /\ outcome.steps[Len(outcome.steps)] = "minimum_grade")
               => ~ExpectedMinimumGrade

\* overall grade C+ against the structured minimum grade {mean_grade: A-}:
\* rejected at the minimum grade check
C5_Witness ==
    /\ Done
    /\ IsDict(programme.minimum_grade)
    /\ Rank(MeanGradeOf(programme.minimum_grade)) > Rank(user_min_grade)
    /\ Rank(user_min_grade) > 0
    /\ ~outcome.ret
    /\ outcome.steps[Len(outcome.steps)] = "minimum_grade"

\* the programme declares a requirement mapping (a non-empty dict)
DeclaresMapping ==
    /\ IsDict(programme.minimum_subject_requirements)
    /\ Len(programme.minimum_subject_requirements.v) > 0

\* its (key, required grade) entries
DeclaredEntries ==
    LET rq == programme.minimum_subject_requirements.v
    IN  { rq[i] : i \in 1..Len(rq) }

\* an entry whose key and required grade are both non-empty strs
WellFormedEntry(e) == IsStr(e[1]) /\ Len(e[1].v) > 0 /\ IsStr(e[2]) /\ Len(e[2].v) > 0

\* the entries of the candidate's profile
ProfileItems ==
    LET ug == checker.user_grades.v
    IN  { ug[i] : i \in 1..Len(ug) }

\* one name contains the other, compared case-insensitively
RawNamesMatch(a, b) ==
    StrContains(StrLower(a), StrLower(b)) \/ StrContains(StrLower(b), StrLower(a))

\* the same after trimming the surrounding whitespace of both names
NamesMatch(a, b) == RawNamesMatch(StrStrip(a), StrStrip(b))

\* some profile subject matches the name with a grade at or above the required one
HasAtLeast(Match(_, _), name, grade) ==
    \E it \in ProfileItems : Match(it[1].v, name) /\ Rank(it[2]) >= Rank(grade)

\* the slash-separated alternatives of a key: its maximal slash-free pieces
Pieces(s) ==
    LET slashes == { i \in 1..Len(s) : s[i] = "/" }
        starts  == {1} \cup { i + 1 : i \in slashes }
        stop(a) == CHOOSE j \in slashes \cup {Len(s) + 1} :
                       j >= a /\ \A k \in slashes : k >= a => k >= j
    IN  { SubSeq(s, a, stop(a) - 1) : a \in starts }

AlternativeSatisfied(e) ==
    \E alt \in Pieces(e[1].v) : HasAtLeast(NamesMatch, alt, e[2])

Satisfied(e) ==
    IF HasSlash(e[1].v) THEN AlternativeSatisfied(e)
    ELSE HasAtLeast(NamesMatch, e[1].v, e[2])

\* C6 as stated (read on the well-formed entries, the malformed ones being
\* C10's): the subject check passes only if every declared key is satisfied,
\* and a plain key is satisfied if and only if some profile subject has a name
\* that contains the key or is contained in it, compared case-insensitively,
\* with a grade rank >= the required rank.
C6_AsStated ==
    (Done /\ DeclaresMapping /\ outcome.steps = ExpectedSteps
          /\ Len(outcome.steps) > 0 /\ outcome.steps[Len(outcome.steps)] = "subjects") =>
        \A e \in { d \in DeclaredEntries : WellFormedEntry(d) /\ ~HasSlash(d[1].v) } :
            /\ SubjectsRet => HasAtLeast(RawNamesMatch, e[1].v, e[2])
            /\ UserHasSubject(checker, e[1], e[2]) = HasAtLeast(RawNamesMatch, e[1].v, e[2])

\* C6 (amended): the subject check passes only if every declared (well-formed)
\* key is satisfied; a plain key is satisfied if and only if some profile
\* subject has a name that, with the surrounding whitespace of both names
\* trimmed and compared case-insensitively, contains the key or is contained
\* in it, with a grade rank >= the required rank.
C6_SubjectRequirementsCheck ==
    (Done /\ DeclaresMapping) =>
        /\ SubjectsRet => \A e \in { d \in DeclaredEntries : WellFormedEntry(d) } : Satisfied(e)
        /\ outcome.ret => \A e \in { d \in DeclaredEntries : WellFormedEntry(d) } : Satisfied(e)
        /\ \A e \in { d \in DeclaredEntries : WellFormedEntry(d) /\ ~HasSlash(d[1].v) } :
              UserHasSubject(checker, e[1], e[2]) = HasAtLeast(NamesMatch, e[1].v, e[2])

\* the key "Math " (trailing blank) is satisfied by the subject "mathematics":
\* neither name contains the other until the key is trimmed
C6_Witness ==
    /\ Done /\ DeclaresMapping /\ outcome.ret
    /\ \E e \in DeclaredEntries :
          /\ WellFormedEntry(e) /\ ~HasSlash(e[1].v)
          /\ HasAtLeast(NamesMatch, e[1].v, e[2])
          /\ ~HasAtLeast(RawNamesMatch, e[1].v, e[2])

MathStatisticsB == PyDict(<< <<G(kMathStatistics), G(<<"B">>)>> >>)

\* C7: a key containing "/" is satisfied if and only if at least one of its
\* slash-separated alternatives is matched by a profile subject at or above
\* the required grade; {Math/Statistics: B} is satisfied by {mathematics: B+}
\* alone and by {statistics: A} alone, and not by {mathematics: C, statistics: C+}.
C7_AlternativeSubjectsOr ==
    (Done /\ DeclaresMapping) =>
        /\ \A e \in { d \in DeclaredEntries : WellFormedEntry(d) /\ HasSlash(d[1].v) } :
              /\ AnyAlternative(checker, e[1], e[2]) = AlternativeSatisfied(e)
              /\ SubjectsRet => AlternativeSatisfied(e)
        /\ programme.minimum_subject_requirements = MathStatisticsB =>
              /\ checker.user_grades = PyDict(<< <<G(sMathematics), G(<<"B","+">>)>> >>)
                    => SubjectsRet
              /\ checker.user_grades = PyDict(<< <<G(sStatistics), G(<<"A">>)>> >>)
                    => SubjectsRet
              /\ checker.user_grades = PyDict(<< <<G(sMathematics), G(<<"C">>)>>,
                                                 <<G(sStatistics), G(<<"C","+">>)>> >>)
                    => ~SubjectsRet

\* {Math/Statistics: B} against a profile holding only statistics: A qualifies
C7_Witness ==
    /\ Done /\ outcome.ret
    /\ programme.minimum_subject_requirements = MathStatisticsB
    /\ checker.user_grades = PyDict(<< <<G(sStatistics), G(<<"A">>)>> >>)

MalformedCutoff == IsDegree /\ ClusterSupplied /\ UnparsableCutoff

\* a minimum_subject_requirements that is present and not a mapping
MalformedRequirements == programme.minimum_subject_requirements.t \in {"list", "str"}

\* a declared minimum grade that is not one of the 12 grades
InvalidMinimumGrade ==
    LET mg == programme.minimum_grade
        g  == IF IsDict(mg) THEN MeanGradeOf(mg) ELSE mg
    IN  /\ ~(mg.t \in {"absent", "none"}) /\ ~IsEmptyStr(mg)
        /\ ~(g.t \in {"absent", "none"}) /\ ~IsEmptyStr(g)
        /\ Rank(g) = 0

C10_MalformedEntrySkipped ==
    (Done /\ DeclaresMapping) =>
        LET wf == \A e \in { d \in DeclaredEntries : WellFormedEntry(d) } : Satisfied(e)
        IN  /\ SubjectsRet = wf
            /\ ("subjects" \in { outcome.steps[i] : i \in 1..Len(outcome.steps) })
                  => outcome.ret = wf

\* a mapping with a malformed entry and a satisfied well-formed entry qualifies
C10_Witness ==
    /\ Done /\ DeclaresMapping /\ outcome.ret
    /\ \E e \in DeclaredEntries : ~WellFormedEntry(e)
    /\ \E e \in DeclaredEntries : WellFormedEntry(e)


\* the 12 grades, as written
ValidGrades == { GradeOrder[i] : i \in 1..Len(GradeOrder) }

\* a str that reads as one of the 12 grades once trimmed and upper-cased
ReadsAsGrade(x) == IsStr(x) /\ StrUpper(StrStrip(x.v)) \in ValidGrades

\* the grade values a call ranks: the overall grade, the declared minimum
\* grade, the grades of the profile and the required grades of the mapping
RankedValues ==
    LET mg == programme.minimum_grade
        rq == programme.minimum_subject_requirements
    IN  {user_min_grade}
        \cup (IF mg.t = "absent" THEN {} ELSE IF IsDict(mg) THEN {MeanGradeOf(mg)} ELSE {mg})
        \cup { it[2] : it \in ProfileItems }
        \cup (IF IsDict(rq) THEN { rq.v[i][2] : i \in 1..Len(rq.v) } ELSE {})

\* the declared minimum grade (the one under mean_grade of a structured one)
DeclaredMinimumGrade ==
    IF IsDict(programme.minimum_grade) THEN MeanGradeOf(programme.minimum_grade)
    ELSE programme.minimum_grade

\* the profile subjects that match the key of an entry, or one of its alternatives
MatchingItems(e) ==
    { it \in ProfileItems : \E alt \in Pieces(e[1].v) : NamesMatch(it[1].v, alt) }

\* a rank-0 overall grade fails a valid declared minimum grade, and a profile
\* whose subjects matching an entry all have rank 0 fails that entry when its
\* required grade is valid
RankZeroNeverQualifies ==
    /\ (GradeValue(user_min_grade) = 0
          /\ IsStr(DeclaredMinimumGrade) /\ DeclaredMinimumGrade.v \in ValidGrades)
         => (~MinimumGradeRet /\ ~outcome.ret)
    /\ DeclaresMapping =>
         \A e \in { d \in DeclaredEntries : WellFormedEntry(d) /\ d[2].v \in ValidGrades } :
             (\A it \in MatchingItems(e) : GradeValue(it[2]) = 0)
                 => (~SubjectsRet /\ ~outcome.ret)

\* C11 as stated (read on the calls that accept a programme with a valid
\* minimum grade): the rank of the empty string, of any string that is not one
\* of the 12 grades and of any value that is not a string is 0, and rank 0
\* fails every requirement on a valid grade.
C11_AsStated ==
    (Done /\ outcome.ret /\ IsStr(DeclaredMinimumGrade)
          /\ DeclaredMinimumGrade.v \in ValidGrades) =>
        /\ \A x \in RankedValues :
              (~IsStr(x) \/ ~(x.v \in ValidGrades)) => GradeValue(x) = 0
        /\ RankZeroNeverQualifies

\* C11 (amended): the rank of a value is 0 exactly when the value is not a
\* string or is a string that, with its surrounding whitespace trimmed and
\* upper-cased, is not one of the 12 grades (the empty string included), and
\* it is otherwise the grade's rank in 1..12; a candidate whose overall grade
\* (or whose every matching subject grade) has rank 0 fails every minimum
\* grade (or subject) requirement on one of the 12 valid grades.
C11_UnknownGradeRankZero ==
    Done =>
        /\ \A x \in RankedValues :
              /\ GradeValue(x) \in 0..12
              /\ (GradeValue(x) = 0) = ~ReadsAsGrade(x)
              /\ GradeValue(x) = Rank(x)
        /\ RankZeroNeverQualifies

\* the subject mathematics holds the unknown grade Z: {Mathematics: B} is not
\* met and the programme is rejected at the subject check
C11_Witness ==
    /\ Done /\ DeclaresMapping /\ ~outcome.ret
    /\ outcome.steps[Len(outcome.steps)] = "subjects"
    /\ \E e \in DeclaredEntries :
          /\ WellFormedEntry(e) /\ e[2].v \in ValidGrades
          /\ MatchingItems(e) # {}
          /\ \A it \in MatchingItems(e) : IsStr(it[2]) /\ GradeValue(it[2]) = 0

\* g comes before h in E < D- < D < D+ < C- < C < C+ < B- < B < B+ < A- < A
Precedes(g, h) ==
    \E i, j \in 1..Len(GradeOrder) : GradeOrder[i] = g /\ GradeOrder[j] = h /\ i < j

\* the overall grade and the minimum grade are both among the 12 grades as written
BothValidGrades ==
    /\ IsStr(user_min_grade) /\ user_min_grade.v \in ValidGrades
    /\ IsStr(programme.minimum_grade) /\ programme.minimum_grade.v \in ValidGrades

\* C12: _grade_value maps the 12 valid grades one-to-one onto 1..12, and for
\* valid grades g and h, rank(g) < rank(h) exactly when g precedes h in the
\* fixed order (so that the overall grade g meets the minimum grade h exactly
\* when g does not precede h).
C12_GradeOrderingTotal ==
    (Done /\ BothValidGrades) =>
        LET g == user_min_grade
            h == programme.minimum_grade
        IN  /\ (GradeValue(g) < GradeValue(h)) = Precedes(g.v, h.v)
            /\ (GradeValue(g) = GradeValue(h)) = (g.v = h.v)
            /\ MinimumGradeRet = ~Precedes(g.v, h.v)
            /\ { GradeValue(G(x)) : x \in ValidGrades } = 1..12
            /\ Cardinality(ValidGrades) = 12

\* overall grade B against the minimum grade B+: B precedes B+, not met
C12_Witness ==
    /\ Done /\ BothValidGrades
    /\ user_min_grade.v = <<"B">> /\ programme.minimum_grade.v = <<"B","+">>
    /\ ~outcome.ret

\* the programme declares neither a minimum grade nor subject requirements
NothingDeclared ==
    /\ programme.minimum_grade.t \in {"absent", "none"} \/ IsEmptyStr(programme.minimum_grade)
    /\ \/ programme.minimum_subject_requirements.t \in {"absent", "none"}
       \/ /\ IsDict(programme.minimum_subject_requirements)
          /\ Len(programme.minimum_subject_requirements.v) = 0

\* C13: a programme that declares no minimum grade and no subject requirements
\* qualifies every grade profile and every overall grade when the family is
\* not degree, or is degree and the programme declares no cut-off.
C13_VacuousPass ==
    (Done /\ NothingDeclared /\ (~IsDegree \/ NoCutoffDeclared)) =>
        /\ outcome.ret
        /\ \A pr \in Profiles, ug \in OverallGrades :
              CheckProgrammeRequirements(
                  GradeCheckerInit(pr, request.education_type, request.cluster_weights),
                  programme, ug, cluster_number).ret

\* a degree check with cluster 3 on a programme that declares nothing at all
C13_Witness ==
    /\ Done /\ NothingDeclared /\ IsDegree /\ ClusterSupplied /\ NoCutoffDeclared
    /\ outcome.ret
    /\ outcome.steps = <<"cutoff", "minimum_grade", "subjects">>

---------------------------------------------------------------------------
(* Properties of the catalog cache *)

\* a refresh_all has run to its end and none is in flight
RefreshCompleted == HasCache /\ refresh.pc = "idle" /\ refresh.caller # "none"

\* a refresh_all is in flight
RefreshInFlight == HasCache /\ refresh.pc # "idle"

\* the list a category must hold once a load of it has answered found
ListReadAs(found) ==
    CASE found = "A" -> << <<"a","1">>, <<"a","2">> >>
      [] found = "B" -> << <<"b","1">> >>
      [] found = "empty" -> << >>
      [] found = "fail"  -> << >>

\* C14: when a refresh_all has completed, every category of the four families
\* holds exactly the list that this refresh read for it from the store (the
\* whole list, nothing of the list it held before), a category whose load failed
\* holds an empty list, every category has been loaded whatever loads failed
\* before it, and the timestamp is recorded; a refresh in flight can always take
\* its next step, so a failed load stops neither its siblings nor the refresh.
C14_RefreshPostcondition ==
    /\ RefreshCompleted =>
          /\ \A f \in CacheFields : \A n \in DOMAIN CategoryKeys(f) :
                LET key == CategoryKeys(f)[n]
                IN  /\ <<f, key>> \in DOMAIN refresh.read
                    /\ key \in DOMAIN cache[f]
                    /\ cache[f][key].items = ListReadAs(refresh.read[<<f, key>>])
          /\ cache.cache_timestamp = DateTime(clock)
    /\ RefreshInFlight => ENABLED LoadNext

\* a refresh after the first has completed in which the load of cluster_2
\* failed and the load of the diploma category Business_Related returned the
\* other list: cluster_2 is empty, its sibling cluster_3 and the later
\* families are loaded
C14_Witness ==
    /\ RefreshCompleted
    /\ refresh.caller = "task"
    /\ refresh.read[<<"degree_cache", "cluster_2">>] = "fail"
    /\ refresh.read[<<"diploma_cache", "Business_Related">>] = "B"
    /\ cache.degree_cache["cluster_2"].items = << >>
    /\ Len(cache.degree_cache["cluster_3"].items) > 0
    /\ cache.diploma_cache["Business_Related"].items = << <<"b","1">> >>
    /\ Len(cache.kmtc_cache["kmtc"].items) > 0

\* the keys the specification gives each family
ExpectedKeys(f) ==
    CASE f = "degree_cache" ->
             { "cluster_1", "cluster_2", "cluster_3", "cluster_4", "cluster_5",
               "cluster_6", "cluster_7", "cluster_8", "cluster_9", "cluster_10",
               "cluster_11", "cluster_12", "cluster_13", "cluster_14", "cluster_15",
               "cluster_16", "cluster_17", "cluster_18", "cluster_19", "cluster_20" }
      [] f = "diploma_cache" -> { DIPLOMA_CATEGORIES[n] : n \in DOMAIN DIPLOMA_CATEGORIES }
      [] f = "cert_cache"    -> { CERT_CATEGORIES[n] : n \in DOMAIN CERT_CATEGORIES }
      [] f = "kmtc_cache"    -> { "kmtc" }

\* C17: after any completed refresh the key set of the degree family is exactly
\* cluster_1 .. cluster_20, that of the diploma family exactly the 21 configured
\* diploma names, that of the certificate family exactly the 21 configured
\* certificate names and that of the KMTC family exactly kmtc, whether the
\* loads succeeded or failed; at no time does a family hold another key.
C17_CategoryPartition ==
    /\ Cardinality(ExpectedKeys("degree_cache")) = 20
    /\ Cardinality(ExpectedKeys("diploma_cache")) = 21
    /\ Cardinality(ExpectedKeys("cert_cache")) = 21
    /\ HasCache => \A f \in CacheFields : DOMAIN cache[f] \subseteq ExpectedKeys(f)
    /\ RefreshCompleted => \A f \in CacheFields : DOMAIN cache[f] = ExpectedKeys(f)

\* a refresh has completed with the store down: every load failed and every
\* key is present with an empty list
C17_Witness ==
    /\ RefreshCompleted
    /\ store = "down"
    /\ \A f \in CacheFields : \A key \in ExpectedKeys(f) :
          key \in DOMAIN cache[f] /\ cache[f][key].items = << >>

\* the lists the store of the model can return, and the empty list
CompleteLists == { ListReadAs(found) : found \in {"A", "B", "empty"} }

\* C18: a reader that obtains a category's list while a refresh is in progress
\* obtains the complete list the category held before the refresh (when the
\* refresh has not reloaded the category yet) or the complete list the refresh
\* installed (when it has), never a partly overwritten one; and a list object
\* that was handed to a reader is never changed by a later refresh: as long as
\* the category is still bound to that object, it holds what the reader got.
C18_ReaderAtomicity ==
    reply.op = "get" =>
        /\ reply.ret.items \in CompleteLists
        /\ (reply.during /\ ~reply.reloaded) => reply.ret = reply.pre
        /\ (reply.during /\ reply.reloaded) => reply.ret.items = reply.installed
        /\ (/\ reply.key \in DOMAIN cache[reply.f]
            /\ cache[reply.f][reply.key].id = reply.ret.id)
              => cache[reply.f][reply.key].items = reply.ret.items

\* a reader got the two-document list of cluster_2 during a refresh that had
\* not reloaded it yet; the refresh has since rebound cluster_2 to another
\* list object with other content
C18_Witness ==
    /\ reply.op = "get"
    /\ reply.f = "degree_cache" /\ reply.key = "cluster_2"
    /\ reply.during /\ ~reply.reloaded
    /\ Len(reply.ret.items) = 2
    /\ cache.degree_cache["cluster_2"].id # reply.ret.id
    /\ Len(cache.degree_cache["cluster_2"].items) = 1

\* C19: should_refresh answers true exactly when the cache has never been
\* refreshed or the time elapsed since the last completed refresh is strictly
\* greater than the TTL (6 hours by default); at exactly the TTL it answers false.
C19_ShouldRefreshStrict ==
    /\ HasCache => cache.ttl = 6
    /\ reply.op = "should_refresh" =>
          IF reply.stamp.t = "none" THEN reply.ret = TRUE
          ELSE /\ reply.ret = (reply.now - reply.stamp.v > 6)
               /\ (reply.now - reply.stamp.v = 6) => reply.ret = FALSE

\* should_refresh was asked exactly six hours after a refresh that completed
\* after the first hours of the clock, and answered false
C19_Witness ==
    /\ reply.op = "should_refresh"
    /\ reply.stamp.t = "datetime"
    /\ reply.stamp.v > 0
    /\ reply.now - reply.stamp.v = 6
    /\ reply.ret = FALSE

\* C20: an accessor returns the list the cache holds for the key at the time of
\* the call, and an empty list for a key the cache does not hold (before the
\* first refresh too); it reads nothing from the store and leaves the four
\* dicts and the timestamp as they are: no key is created by a lookup.
C20_AccessorsPure ==
    [][ (reply' # reply /\ reply'.op = "get") =>
            /\ cache' = cache
            /\ refresh' = refresh
            /\ reply'.ret = IF reply'.key \in DOMAIN cache[reply'.f]
                            THEN cache[reply'.f][reply'.key]
                            ELSE [id |-> 0, items |-> << >>] ]_vars

\* after a completed refresh a lookup of cluster 21 was answered an empty list
\* and the degree family still has no such key
C20_Witness ==
    /\ RefreshCompleted
    /\ reply.op = "get"
    /\ reply.f = "degree_cache" /\ reply.key = "cluster_21"
    /\ reply.ret.items = << >>
    /\ ~("cluster_21" \in DOMAIN cache.degree_cache)
    /\ Cardinality(DOMAIN cache.degree_cache) = 20

---------------------------------------------------------------------------
(* Properties of the application start-up *)

\* C15: if the backing store is unreachable when the cache is initialized at
\* start-up, initialize()/refresh_all() fails and the failure reaches lifespan,
\* so the application never comes to serve with the catalog it built then.
C15_AsStated == (store = "down" /\ HasCache) => app # "serving"

\* a /check call that got as far as a sweep
Swept == reply.op = "check" /\ reply.status \in {200, 500}

\* C16: no evaluation request is served before a cache load has completed: a
\* sweep of check_courses sees cache_timestamp set, the application serves with
\* a cache only once initialize() has returned (no start-up refresh in flight,
\* timestamp set), and a request that finds no cache instance is answered 503
\* without any programme evaluated.
C16_NoSweepBeforeLoad ==
    /\ Swept => reply.stamp.t = "datetime"
    /\ (app = "serving" /\ HasCache) =>
          /\ cache.cache_timestamp.t = "datetime"
          /\ refresh.caller # "none"
          /\ ~(refresh.pc # "idle" /\ refresh.caller = "lifespan")
    /\ (reply.op = "check" /\ ~HasCache) =>
          reply.status = 503 /\ reply.evaluated = 0 /\ reply.results = << >>

\* a request answered 200 after a sweep that evaluated programmes and found
\* some qualifying
C16_Witness ==
    /\ reply.op = "check"
    /\ reply.status = 200
    /\ reply.evaluated > 0
    /\ Len(reply.results) > 0
    /\ reply.stamp.t = "datetime"

---------------------------------------------------------------------------
(* Properties of the /check handler *)

\* the keys of the cluster weights a request supplies
WeightKeys(body) ==
    IF IsDict(body.cluster_weights)
    THEN { body.cluster_weights.v[k][1].v : k \in 1..Len(body.cluster_weights.v) }
    ELSE {}

C21_SuppliedRejected ==
    /\ reply.op = "check"
    /\ reply.body.education_type = DEGREE
    /\ Cardinality(WeightKeys(reply.body)) = 19
    /\ reply.status = 422
    /\ ~reply.constructed

BadSubjects(body) ==
    \/ Len(body.subjects) = 0
    \/ Len(body.subjects) > 15
    \/ \E n \in 1..Len(body.subjects) : ~(body.subjects[n].grade \in VALID_GRADES)
    \/ \A n \in 1..Len(body.subjects) : StrLower(body.subjects[n].subject) # sOverall

\* a request whose subjects the schema turns down
SchemaRejectsSubjects(body) ==
    \/ Len(body.subjects) = 0
    \/ \E n \in 1..Len(body.subjects) : ~(Len(body.subjects[n].grade) \in 1..2)

\* C22 (as stated): a request with no subjects, with more than 15 subjects,
\* with any grade that is not one of the 12 valid grade tokens, or without an
\* 'overall' entry is answered 400; no programme has been evaluated and nothing
\* has been written to persistence.
C22_AsStated ==
    (reply.op = "check" /\ BadSubjects(reply.body) /\ reply.status # 503)
        => /\ reply.status = 400
           /\ reply.evaluated = 0
           /\ ~reply.persisted

\* C22 (amended): such a request is answered 400, except that a request with
\* no subjects, or with a grade that is empty or longer than two characters,
\* is turned down by the request schema with 422; in every case no checker
\* was built, no programme was evaluated and nothing was written to
\* persistence.
C22_BadSubjectsRejected ==
    (reply.op = "check" /\ BadSubjects(reply.body))
        => /\ reply.status \in {400, 422, 503}
           /\ (reply.status # 503 /\ SchemaRejectsSubjects(reply.body))
                 => reply.status = 422
           /\ (/\ reply.status # 503
               /\ ~SchemaRejectsSubjects(reply.body)
               /\ reply.body.education_type # DEGREE) => reply.status = 400
           /\ ~reply.constructed
           /\ reply.evaluated = 0
           /\ ~reply.persisted

\* a request with no subjects was answered 422
C22_Witness ==
    /\ reply.op = "check"
    /\ Len(reply.body.subjects) = 0
    /\ reply.status = 422
    /\ reply.evaluated = 0
    /\ ~reply.persisted

\* requests with sixteen subjects, with the grade F and without an overall
\* grade are answered 400
C22_Answered400 ==
    /\ reply.op = "check"
    /\ reply.status = 400
    /\ Len(reply.body.subjects) = 16

---------------------------------------------------------------------------
(* Properties of the sweeps *)

\* the checker check_courses builds for the request of the reply
CheckerOf(body) ==
    GradeCheckerInit(PyDict(GradeDict(body.subjects, Len(body.subjects))),
                     body.education_type,
                     IF Truthy(FieldGet(body.cluster_weights, PyNone))
                     THEN body.cluster_weights ELSE PyDict(<< >>))

\* the records of the n-th list the sweep of the reply got that the engine
\* accepts for the request, in cache order
Accepted(n) ==
    LET f == FamilyOf(reply.body.education_type)
        Qualifies(d) ==
            CheckProgrammeRequirements(CheckerOf(reply.body), d,
                                       OverallOf(reply.body.subjects),
                                       IF f = "degree_cache" THEN G(NatDigits(n))
                                       ELSE PyNone).ret
    IN  SelectSeq([k \in 1..Len(reply.seen[n]) |->
                      Document(f, CategoryKeys(f)[n], reply.seen[n][k])], Qualifies)

\* the groups of the reply named after the n-th category of the family
GroupsOf(n) ==
    LET Named(g) == g.cluster_name = CategoryKeys(FamilyOf(reply.body.education_type))[n]
    IN  SelectSeq(reply.results, Named)

\* whether a response entry carries the names of a record
NamesOf(entry, d) ==
    /\ entry.programme_name = PyStr(ToStr(d.programme_name))
    /\ entry.institution_name = PyStr(ToStr(d.institution_name))

\* C23: a result contains a group for a category if and only if at least one
\* programme of that category's cached list qualifies; the group is named after
\* the category and holds exactly the qualifying programmes of the category, in
\* cache order, and none of another category; no group is empty.
C23_AsStated ==
    Swept =>
        /\ \A n \in DOMAIN reply.seen :
              /\ Len(GroupsOf(n)) = IF Len(Accepted(n)) > 0 THEN 1 ELSE 0
              /\ \A i \in DOMAIN GroupsOf(n) :
                    /\ Len(GroupsOf(n)[i].programmes) = Len(Accepted(n))
                    /\ \A k \in DOMAIN GroupsOf(n)[i].programmes :
                          NamesOf(GroupsOf(n)[i].programmes[k], Accepted(n)[k])
        /\ \A i \in DOMAIN reply.results :
              /\ Len(reply.results[i].programmes) > 0
              /\ \E n \in DOMAIN reply.seen : GroupsOf(n) = << reply.results[i] >>

\* a degree sweep found the first record of cluster_4 accepted by the engine
\* and returned no group for cluster_4
C23_GroupMissing ==
    /\ Swept
    /\ reply.body.education_type = DEGREE
    /\ Len(reply.seen) = 20
    /\ Len(Accepted(4)) = 1
    /\ GroupsOf(4) = << >>

\* C28: every returned entry derives from a cached record of that category the
\* engine accepted and carries its programme_name and institution_name; an
\* accepted record never yields an entry with blank names and is never left out.
C28_AsStated ==
    Swept =>
        \A n \in DOMAIN reply.seen :
            /\ \A k \in DOMAIN Accepted(n) :
                  \E i \in DOMAIN GroupsOf(n) : \E e \in DOMAIN GroupsOf(n)[i].programmes :
                      NamesOf(GroupsOf(n)[i].programmes[e], Accepted(n)[k])
            /\ \A i \in DOMAIN GroupsOf(n) : \A e \in DOMAIN GroupsOf(n)[i].programmes :
                  /\ GroupsOf(n)[i].programmes[e].programme_name # G(<< >>)
                  /\ GroupsOf(n)[i].programmes[e].institution_name # G(<< >>)
                  /\ \E k \in DOMAIN Accepted(n) :
                        NamesOf(GroupsOf(n)[i].programmes[e], Accepted(n)[k])

\* a certificate sweep returned, for Applied_Sciences, an entry with blank names
\* in the place of the second record; a KMTC sweep that found two accepted
\* records returned one entry
C28_BlankEntry ==
    /\ Swept
    /\ reply.body.education_type = CERTIFICATE
    /\ Len(Accepted(3)) = 2
    /\ Len(GroupsOf(3)) = 1
    /\ GroupsOf(3)[1].programmes[2].programme_name = G(<< >>)
    /\ GroupsOf(3)[1].programmes[2].institution_name = G(<< >>)

C28_RecordLeftOut ==
    /\ Swept
    /\ reply.body.education_type = KMTC
    /\ Len(Accepted(1)) = 2
    /\ Len(GroupsOf(1)) = 1
    /\ Len(GroupsOf(1)[1].programmes) = 1

\* apart from the records with a malformed field, the sweeps of the model
\* return what the two claims say: the diploma sweep holds no such record
WellFormedSweepAsClaimed ==
    (Swept /\ reply.body.education_type = DIPLOMA) => C23_AsStated /\ C28_AsStated

---------------------------------------------------------------------------
(* Properties of the engine as the sweeps use it *)

---------------------------------------------------------------------------
(* Properties of refresh_all *)

\* the 63 keys of the four families
AllKeys == UNION { { <<f, key>> : key \in ExpectedKeys(f) } : f \in CacheFields }

\* the step in which refresh_all returns
RefreshReturns == refresh.pc = "kmtc_cache" /\ refresh'.pc = "idle"

\* C25: the cache timestamp is written only as the last step of refresh_all,
\* after the degree, diploma, certificate and KMTC families have been loaded in
\* that order; a refresh_all that raises leaves the timestamp as it was, so
\* should_refresh never turns false because of a refresh that did not complete.
C25_TimestampLast ==
    [][ /\ (HasCache /\ cache'.cache_timestamp # cache.cache_timestamp) =>
              /\ RefreshReturns
              /\ cache'.cache_timestamp = DateTime(clock)
              /\ DOMAIN refresh'.read = AllKeys
        /\ refresh'.pc # refresh.pc =>
              <<refresh.pc, refresh'.pc>> \in
                  { <<"idle", "degree_cache">>, <<"cancelled", "degree_cache">>,
                    <<"degree_cache", "diploma_cache">>, <<"diploma_cache", "cert_cache">>,
                    <<"cert_cache", "kmtc_cache">>, <<"kmtc_cache", "idle">> }
                  \cup (CacheFields \X {"cancelled"})
        /\ refresh'.pc = "cancelled" => cache' = cache
        /\ (HasCache /\ ShouldRefreshOf(cache, clock) /\ ~ShouldRefreshOf(cache', clock'))
              => RefreshReturns ]_vars

\* nine hours after the start-up refresh a second refresh that had reloaded
\* the degree and diploma families was cancelled; the timestamp is still that
\* of the start-up refresh and should_refresh has answered true since
C25_Witness ==
    /\ refresh.pc = "cancelled"
    /\ refresh.caller = "task"
    /\ Cardinality(DOMAIN refresh.read) > 41
    /\ cache.cache_timestamp = DateTime(0)
    /\ reply.op = "should_refresh"
    /\ reply.now = 9
    /\ reply.ret = TRUE

---------------------------------------------------------------------------
(* Properties of a sweep during a refresh *)

\* C27: the sweep functions contain no suspension point, so refresh_all cannot
\* write between a sweep's first and last cache read: all the lists of one
\* sweep are those the cache holds at one instant, and nothing is written in
\* the step of the sweep.  That instant may fall in the middle of a refresh:
\* the sweep then sees the categories the refresh has reloaded as the refresh
\* read them and the remaining categories as they were before the refresh.
C27_SweepAtOneInstant ==
    [][ (reply' # reply /\ reply'.op = "check" /\ reply'.status \in {200, 500}) =>
            LET f == FamilyOf(reply'.body.education_type)
            IN  /\ cache' = cache
                /\ refresh' = refresh
                /\ reply'.seen = SeenBy(cache, f)
                /\ reply'.during = (refresh.pc \in CacheFields)
                /\ refresh.pc \in CacheFields =>
                      \A n \in DOMAIN CategoryKeys(f) :
                          reply'.seen[n] =
                              IF <<f, CategoryKeys(f)[n]>> \in DOMAIN refresh.read
                              THEN FoundItems(refresh.read[<<f, CategoryKeys(f)[n]>>])
                              ELSE refresh.before[f][CategoryKeys(f)[n]].items ]_vars

\* a degree sweep ran when a refresh had reloaded cluster_2 and not yet
\* cluster_19: it saw the one-document list the refresh installed for cluster_2
\* and the two-document list cluster_19 held before; the refresh has gone
\* on since and has replaced the list of cluster_19
C27_Witness ==
    /\ reply.op = "check"
    /\ reply.status = 200
    /\ reply.during
    /\ reply.reloaded \in 2..18
    /\ Len(reply.seen[2]) = 1
    /\ Len(reply.seen[19]) = 2
    /\ refresh.pc = "diploma_cache"
    /\ refresh.read[<<"degree_cache", "cluster_2">>] = "B"
    /\ refresh.read[<<"degree_cache", "cluster_19">>] = "B"
    /\ Len(cache.degree_cache["cluster_19"].items) = 1

---------------------------------------------------------------------------
(* Properties of overlapping refreshes *)

BothReturned ==
    refresh.pc = "overlap" /\ \A k \in 1..2 : refresh.calls[k].at = "returned"

\* C26: refresh_all is not safe under overlap and the cache does nothing to
\* serialize it: a call can start while another is in flight, and the two
\* interleave their category writes.  After both have completed, a category
\* holds the list of the call that wrote it last, which may be the list read by
\* the call whose read was issued first (older store content), while the cache
\* timestamp is that of the call that completed last.
C26_OverlapUnserialized ==
    refresh.pc = "overlap" =>
        /\ \A k \in 1..2 :
              (refresh.calls[k].at = "idle" /\ refresh.calls[3 - k].at \in CacheFields)
                  => ENABLED CallRefreshAll(k)
        /\ BothReturned =>
              /\ refresh.stamped_by = refresh.done[2]
              /\ cache.cache_timestamp.t = "datetime"
              /\ cache.degree_cache["cluster_2"].items
                    = FoundItems(refresh.calls[refresh.wrote].got)

\* both calls have returned; call 1 issued its find of cluster_2 first and
\* read the old list, the store was updated, call 2 read the new list, call 1
\* wrote cluster_2 last and call 2 returned last: the cache holds the old list
\* of cluster_2 under the timestamp of call 2
C26_Witness ==
    /\ BothReturned
    /\ store = "updated"
    /\ refresh.first = 1
    /\ refresh.calls[1].got = "A"
    /\ refresh.calls[2].got = "B"
    /\ refresh.wrote = 1
    /\ refresh.done = <<1, 2>>
    /\ refresh.stamped_by = 2
    /\ cache.degree_cache["cluster_2"].items = FoundItems("A")

---------------------------------------------------------------------------
(* Properties of requirement names that are empty once trimmed *)

\* a well-formed entry one of whose names (the key, or an alternative of a key
\* with "/") is empty after trimming
BlankName(e) ==
    /\ WellFormedEntry(e)
    /\ \E name \in (IF HasSlash(e[1].v) THEN Pieces(e[1].v) ELSE {e[1].v}) :
          Len(StrStrip(name)) = 0

\* some profile entry, whatever its name, has a grade at or above the required one
AnyEntryMeets(grade) ==
    \E it \in ProfileItems : IsStr(it[1]) /\ IsStr(it[2]) /\ Rank(it[2]) >= Rank(grade)

\* C29: a requirement name that is empty after trimming (an alternative such
\* as "Math/" or "A//B", or a whitespace-only key) is a substring of every
\* subject name, so the entry is satisfied by any profile entry, 'overall'
\* included, whose grade meets the required grade, and by nothing else.
C29_BlankNameMatchesAny ==
    (Done /\ DeclaresMapping) =>
        \A e \in { d \in DeclaredEntries : BlankName(d) } :
            /\ (IF HasSlash(e[1].v) THEN AnyAlternative(checker, e[1], e[2])
                ELSE UserHasSubject(checker, e[1], e[2])) = AnyEntryMeets(e[2])
            /\ AnyEntryMeets(e[2]) => Satisfied(e)
            /\ (DeclaredEntries = {e} /\ outcome.steps = ExpectedSteps
                   /\ (IsDegree => CutoffRet) /\ MinimumGradeRet)
                  => outcome.ret = AnyEntryMeets(e[2])

\* {Math/: B} qualifies a candidate whose only entry at or above B is
\* 'overall': the profile has no subject named Math
C29_Witness ==
    /\ Done /\ outcome.ret
    /\ programme.minimum_subject_requirements
          = PyDict(<< <<G(<<"M","a","t","h","/">>), G(<<"B">>)>> >>)
    /\ checker.user_grades
          = PyDict(<< <<G(sOverall), G(<<"B","+">>)>>, <<G(sEnglish), G(<<"D">>)>> >>)

---------------------------------------------------------------------------
(* Monotonicity of the qualification *)

\* the valid grades at or above a grade value
AtOrAbove(x) == { G(GradeOrder[i]) : i \in { j \in 1..Len(GradeOrder) : j >= Rank(x) } }

\* the candidate of the call with one grade of the profile raised, with one
\* subject added, or with one cluster weight raised
RaisedCheckers ==
    LET ug == checker.user_grades.v
        cw == checker.cluster_weights.v
    IN  { [checker EXCEPT !.user_grades = PyDict([ug EXCEPT ![i] = <<ug[i][1], g>>])] :
              <<i, g>> \in { x \in (1..Len(ug)) \X AtOrAbove(PyNone) :
                               x[2] \in AtOrAbove(ug[x[1]][2]) } }
        \cup { [checker EXCEPT !.user_grades = PyDict(Append(ug, <<G(name), g>>))] :
                  <<name, g>> \in { x \in { kPhysics, sMath, sOverall, <<"k","i","s">> }
                                           \X { G(<<"A">>), G(<<"E">>), G(<<"Z">>) } :
                                      \A i \in 1..Len(ug) : ug[i][1] # G(x[1]) } }
        \cup { [checker EXCEPT !.cluster_weights = PyDict([cw EXCEPT ![i] = <<cw[i][1], w>>])] :
                  <<i, w>> \in { x \in (1..Len(cw)) \X { PyFloat(30000), PyFloat(35000),
                                                         PyFloat(100000) } :
                                   cw[x[1]][2].t = "float" /\ x[2].v >= cw[x[1]][2].v } }

\* C30: qualification is monotone in the candidate: raising the overall grade,
\* raising the grade of a subject, adding a subject, or raising any cluster
\* weight keeps a qualifying candidate qualifying.
C30_Monotone ==
    (Done /\ outcome.ret) =>
        /\ \A g \in AtOrAbove(user_min_grade) :
              CheckProgrammeRequirements(checker, programme, g, cluster_number).ret
        /\ \A raised \in RaisedCheckers :
              CheckProgrammeRequirements(raised, programme, user_min_grade, cluster_number).ret

\* a degree candidate qualifies with the weight 34.486 against the cut-off
\* 30.0, with the overall grade C+ against the minimum C and with Mathematics
\* A against the requirement B: there are higher grades and weights to raise to
C30_Witness ==
    /\ Done /\ outcome.ret
    /\ IsDegree
    /\ programme.cut_off_points = PyFloat(30000)
    /\ checker.cluster_weights = WorkedWeights
    /\ user_min_grade = G(<<"C","+">>)
    /\ programme.minimum_grade = G(<<"C">>)
    /\ programme.minimum_subject_requirements
          = PyDict(<< <<G(kMathematics), G(<<"B">>)>> >>)
    /\ Cardinality(AtOrAbove(user_min_grade)) = 6
    /\ Cardinality(RaisedCheckers) > 10

====
